---- MODULE Spec2Model ----
(***************************************************************************)
(* Verification model of the crypto-ai-backend core:                       *)
(*   - the FIFO trade ledger (services/trading_service.py), and            *)
(*   - the per-bar signal loops of the technical strategies                *)
(*     (strategies/technical/*.py).                                        *)
(*                                                                         *)
(* Numbers.  Prices, amounts and timestamps are integers (one unit is one  *)
(* tick of the source's float).  A percentage the source rounds to two     *)
(* decimals is kept in hundredths (win_rate 10000 is 100.00).              *)
(***************************************************************************)
EXTENDS Integers, Sequences, FiniteSets, TLC

\* ------------------------------------------------------------------------
\* Bounds of the ledger model
\* ------------------------------------------------------------------------
MaxTrades == 3
MaxMalformed == 2
MaxRuns == 2

\* A key that is absent from a trade dict.
Missing == "<missing>"

Symbols == {"BTC", "ETH"}
Sides == {"buy", "sell"}
Amounts == {1, 2}
Prices == {1, 2}
Timestamps == {0, 1}

\* RawTrade as the data model defines it: symbol, side, price > 0, amount > 0.
\* BTC trades take every combination; ETH has one unit buy and one unit sell.
RawTrade ==
    [symbol : {"BTC"}, side : Sides, amount : Amounts,
     price : Prices, timestamp : Timestamps]
    \cup
    {[symbol |-> "ETH", side |-> "buy", amount |-> 1, price |-> 1, timestamp |-> 0],
     [symbol |-> "ETH", side |-> "sell", amount |-> 1, price |-> 1, timestamp |-> 1]}

\* Any record simulated_trades.json may hold: the symbol key may be absent,
\* price and amount may be 0.
AnyTrade == [symbol : {"BTC", Missing}, side : Sides,
             amount : Amounts \cup {0}, price : Prices \cup {0},
             timestamp : Timestamps]

SeqsUpTo(S, n) == UNION {[1..k -> S] : k \in 0..n}

Range(s) == {s[k] : k \in 1..Len(s)}

Min(a, b) == IF a <= b THEN a ELSE b

\* round(a / b, 0) for b > 0, to the nearest integer.
RoundDiv(a, b) == (2 * a + b) \div (2 * b)

\* ------------------------------------------------------------------------
\* TradingService._match_trades_fifo
\* ------------------------------------------------------------------------

\* str.lower() on the side values the model draws.
Lower(s) == IF s = "BUY" THEN "buy" ELSE IF s = "SELL" THEN "sell" ELSE s

\* The loop of lines 104-114: which input positions land in a bucket.
\* A list in Python holds references: the buckets hold positions of `trades`.
Grouped(trades, k) ==
    /\ trades[k].symbol # Missing
    /\ Lower(trades[k].side) \in {"buy", "sell"}

RECURSIVE SymbolKeys(_, _, _)
\* Keys of trades_by_symbol in dict (insertion) order.
SymbolKeys(trades, k, keys) ==
    IF k > Len(trades) THEN keys
    ELSE IF Grouped(trades, k) /\ trades[k].symbol \notin Range(keys)
         THEN SymbolKeys(trades, k + 1, Append(keys, trades[k].symbol))
         ELSE SymbolKeys(trades, k + 1, keys)

RECURSIVE Bucket(_, _, _, _)
\* trades_by_symbol[symbol]['buys' | 'sells'], in input order.
Bucket(trades, symbol, side, k) ==
    IF k > Len(trades) THEN << >>
    ELSE IF Grouped(trades, k) /\ trades[k].symbol = symbol
            /\ Lower(trades[k].side) = side
         THEN << k >> \o Bucket(trades, symbol, side, k + 1)
         ELSE Bucket(trades, symbol, side, k + 1)

RECURSIVE InsertSorted(_, _, _)
\* Insert position x behind every element whose timestamp is <= its own.
InsertSorted(trades, sorted, x) ==
    IF sorted = << >> THEN << x >>
    ELSE IF trades[sorted[1]].timestamp <= trades[x].timestamp
         THEN << sorted[1] >> \o InsertSorted(trades, Tail(sorted), x)
         ELSE << x >> \o sorted

\* sorted() left out: the references stay in input order.
InInputOrder(trades, refs) == refs

RECURSIVE SortedByTimestamp(_, _)
\* sorted(refs, key=timestamp): Python's sort is stable.
SortedByTimestamp(trades, refs) ==
    IF refs = << >> THEN << >>
    ELSE InsertSorted(trades,
                      SortedByTimestamp(trades, SubSeq(refs, 1, Len(refs) - 1)),
                      refs[Len(refs)])

\* Lines 120-126 without the sort of line 126: buys, then sells.
MergedOrderUnsorted(trades, symbol) ==
    SortedByTimestamp(trades, Bucket(trades, symbol, "buy", 1))
        \o SortedByTimestamp(trades, Bucket(trades, symbol, "sell", 1))

\* Lines 120-126: sorted(buys + sells) over the two sorted buckets.
MergedOrder(trades, symbol) ==
    LET buys == SortedByTimestamp(trades, Bucket(trades, symbol, "buy", 1))
        sells == SortedByTimestamp(trades, Bucket(trades, symbol, "sell", 1))
    IN SortedByTimestamp(trades, buys \o sells)

\* Lines 128-133: the lot is a new dict holding copies of the buy's fields.
NewLot(trade) ==
    [amount |-> trade.amount, price |-> trade.price, timestamp |-> trade.timestamp]

\* Lines 146-160.
CompletedTrade(symbol, buy, sell_price, sell_timestamp, match_amount) ==
    [symbol |-> symbol,
     buy_price |-> buy.price,
     sell_price |-> sell_price,
     amount |-> match_amount,
     buy_timestamp |-> buy.timestamp,
     sell_timestamp |-> sell_timestamp,
     pnl |-> (sell_price - buy.price) * match_amount,
     \* (sell_price - buy_price) / buy_price * 100 as numerator, denominator
     pnl_percentage |-> << (sell_price - buy.price) * 100, buy.price >>,
     is_winning |-> (sell_price - buy.price) * match_amount > 0]

\* Line 140 taking the newest lot instead of the oldest.
BackLot(buy_queue) == buy_queue[Len(buy_queue)]

\* Line 140: buy = buy_queue[0].
FrontLot(buy_queue) == buy_queue[1]

\* Line 143 without the min: the whole sell is booked against the lot.
MatchAmountUncapped(sell_amount, buy) == sell_amount

\* Line 143.
MatchAmount(sell_amount, buy) == Min(sell_amount, buy.amount)

\* Lines 165-166 with the in-place write landing on the input record too.
UpdateAmountsAliased(st, ref, match_amount) ==
    [st EXCEPT !.sell_amount = @ - match_amount,
               !.buy_queue[1].amount = @ - match_amount,
               !.trades[ref].amount = @ - match_amount]

\* Lines 165-166: sell_amount is a local, buy is the lot at the queue front.
UpdateAmounts(st, ref, match_amount) ==
    [st EXCEPT !.sell_amount = @ - match_amount,
               !.buy_queue[1].amount = @ - match_amount]

\* Lines 169-170 removing the lot after every match.
RemoveExhaustedAlways(st) ==
    [st EXCEPT !.buy_queue = Tail(@)]

\* Lines 169-170.
RemoveExhausted(st) ==
    IF st.buy_queue[1].amount <= 0
    THEN [st EXCEPT !.buy_queue = Tail(@)]
    ELSE st

RECURSIVE MatchLoop(_, _, _)
\* The while loop of lines 139-170 for the sell at position ref.
MatchLoop(st, symbol, ref) ==
    IF ~(st.sell_amount > 0 /\ st.buy_queue # << >>) THEN st
    ELSE LET buy == FrontLot(st.buy_queue)
             sell == st.trades[ref]
             match_amount == MatchAmount(st.sell_amount, buy)
         IN IF buy.price = 0
            THEN [st EXCEPT !.error = "division by zero"]   \* line 147 raises
            ELSE MatchLoop(
                   RemoveExhausted(
                     UpdateAmounts(
                       [st EXCEPT !.completed = Append(@,
                           CompletedTrade(symbol, buy, sell.price,
                                          sell.timestamp, match_amount))],
                       ref, match_amount)),
                   symbol, ref)

\* Lines 127-137: one trade of the merged sequence.
ProcessTrade(st, symbol, ref) ==
    LET trade == st.trades[ref]
    IN IF trade.side = "buy"
       THEN [st EXCEPT !.buy_queue = Append(@, NewLot(trade))]
       ELSE IF trade.side = "sell" /\ st.buy_queue # << >>
       THEN MatchLoop([st EXCEPT !.sell_amount = trade.amount], symbol, ref)
       ELSE st

RECURSIVE ProcessSymbol(_, _, _)
\* Lines 126-170 for one symbol; an exception leaves the function.
ProcessSymbol(st, symbol, refs) ==
    IF refs = << >> \/ st.error # "" THEN st
    ELSE ProcessSymbol(ProcessTrade(st, symbol, refs[1]), symbol, Tail(refs))

RECURSIVE ProcessSymbols(_, _)
\* Lines 119-170: buy_queue is created anew for each symbol.
ProcessSymbols(st, keys) ==
    IF keys = << >> \/ st.error # "" THEN st
    ELSE ProcessSymbols(
           ProcessSymbol([st EXCEPT !.buy_queue = << >>], keys[1],
                         MergedOrder(st.trades, keys[1])),
           Tail(keys))

\* Line 172: what the pass leaves behind: the input records, completed_trades
\* and the message of the exception that ended it ("" when it returned).
PassOutcome(st) ==
    [trades |-> st.trades, completed |-> st.completed, error |-> st.error]

\* Lines 99-172.
MatchTradesFifo(trades) ==
    PassOutcome(ProcessSymbols([trades |-> trades, buy_queue |-> << >>,
                                completed |-> << >>, sell_amount |-> 0,
                                error |-> ""],
                               SymbolKeys(trades, 1, << >>)))

\* ------------------------------------------------------------------------
\* TradingService._calculate_summary, _empty_summary, calculate_pnl_from_trades
\* ------------------------------------------------------------------------

RECURSIVE SumPnl(_)
SumPnl(ts) == IF ts = << >> THEN 0 ELSE ts[1].pnl + SumPnl(Tail(ts))

\* Line 180: the filter of winning_trades.
IsWinning(t) == t.is_winning

\* Line 181 with the filter dropped: every trade counts as losing.
IsAnyTrade(t) == TRUE

\* Line 181: the filter of losing_trades.
IsLosing(t) == ~t.is_winning

\* max(completed_trades, key=pnl): the first trade of maximal pnl.
BestTrade(ts) ==
    ts[CHOOSE i \in 1..Len(ts) :
          \A j \in 1..Len(ts) :
              /\ ts[j].pnl <= ts[i].pnl
              /\ (j < i => ts[j].pnl < ts[i].pnl)]

\* min(completed_trades, key=pnl): the first trade of minimal pnl.
WorstTrade(ts) ==
    ts[CHOOSE i \in 1..Len(ts) :
          \A j \in 1..Len(ts) :
              /\ ts[j].pnl >= ts[i].pnl
              /\ (j < i => ts[j].pnl > ts[i].pnl)]

\* Lines 197-209.  best_trade / worst_trade: << >> is None, << t >> is t.
EmptySummary ==
    [total_pnl |-> 0, total_trades |-> 0, winning_trades |-> 0,
     losing_trades |-> 0, win_rate |-> 0, average_win |-> 0,
     average_loss |-> 0, best_trade |-> << >>, worst_trade |-> << >>]

\* Lines 189-190: round(sum / len, 2) if the subset is non-empty else 0.
AverageOrZero(ts) ==
    IF ts = << >> THEN 0 ELSE RoundDiv(100 * SumPnl(ts), Len(ts))

\* Lines 174-195.  Money and percentages in hundredths.
CalculateSummary(completed_trades) ==
    IF completed_trades = << >> THEN EmptySummary
    ELSE LET winning_trades == SelectSeq(completed_trades, IsWinning)
             losing_trades == SelectSeq(completed_trades, IsLosing)
         IN [total_pnl |-> 100 * SumPnl(completed_trades),
             total_trades |-> Len(completed_trades),
             winning_trades |-> Len(winning_trades),
             losing_trades |-> Len(losing_trades),
             win_rate |-> RoundDiv(10000 * Len(winning_trades),
                                   Len(completed_trades)),
             average_win |-> AverageOrZero(winning_trades),
             average_loss |-> AverageOrZero(losing_trades),
             best_trade |-> << BestTrade(completed_trades) >>,
             worst_trade |-> << WorstTrade(completed_trades) >>]

\* Lines 28-44: the response built from the outcome m of the pass.
\* `records` is the input list as the call leaves it.
PnlResponse(m) ==
    IF m.error # ""
    THEN [success |-> FALSE, error |-> m.error, summary |-> EmptySummary,
          trades |-> << >>, records |-> m.trades]
    ELSE [success |-> TRUE, error |-> "",
          summary |-> CalculateSummary(m.completed),
          trades |-> m.completed, records |-> m.trades]

\* Lines 13-44.
CalculatePnlFromTrades(trades) ==
    IF trades = << >>
    THEN [success |-> TRUE, error |-> "", summary |-> EmptySummary,
          trades |-> << >>, records |-> trades]
    ELSE PnlResponse(MatchTradesFifo(trades))

\* ------------------------------------------------------------------------
\* State
\* ------------------------------------------------------------------------
VARIABLES
    \* the ledger (services/trading_service.py)
    trades,          \* the list _load_trades_from_file returned (the records)
    original,        \* the list as it was first loaded
    results,         \* the return value of each calculate_pnl_from_trades call
    \* one generate_signals run (strategies/technical/*.py)
    strategy,        \* which strategy's generate_signals is running
    df,              \* the frame: the rows fetched so far, with their signal
                     \* columns and the input columns later bars read again
    bar,             \* the input columns of the bar just processed that no
                     \* later bar reads (crosses, level break, low, support)
    loc,             \* the loop's local variables
    phase,           \* "loop", "patterns", "positions", "done" or "idle"
    current_signal,  \* the current_signal of the result
    patterns,        \* all_patterns of the reversal strategy
    pattern_idx,     \* the next pattern of the reversal strategy's outer loop
    pattern_signals, \* the reversal strategy's pattern_signals keys
    \* one comparison (services/strategy_service.py)
    actual_trades,   \* the completed trades of the requested symbol
    ai_trades,       \* the return value of _calculate_ai_trades
    comparison,      \* the return value of _calculate_comparison_metrics
    \* the token blocklist (utils/auth.py, routes/auth.py, app.py)
    blacklisted_tokens, \* the set created by init_jwt
    requests         \* the requests served so far, with their outcome

ledgerVars == << trades, original, results >>

signalVars == << strategy, df, bar, loc, phase, current_signal,
                 patterns, pattern_idx, pattern_signals >>

compareVars == << actual_trades, ai_trades, comparison >>

authVars == << blacklisted_tokens, requests >>

vars == << trades, original, results, strategy, df, bar, loc, phase,
           current_signal, patterns, pattern_idx, pattern_signals,
           actual_trades, ai_trades, comparison,
           blacklisted_tokens, requests >>

\* ------------------------------------------------------------------------
\* Ledger: initial states and actions
\* ------------------------------------------------------------------------
\* The loop locals before the first iteration (current_position = 0, ...).
InitialLocals ==
    [current_position |-> 0, entry_price |-> 0,
     bars_in_position |-> 0, last_signal_index |-> 0]

\* The columns of a bar before any trendline is defined.
NoBar ==
    [support_side |-> "nan", resist_side |-> "nan", touched |-> FALSE,
     support_cross |-> 0, resist_cross |-> 0, level_breaks |-> 0]

\* Every order in which a list of n records can be handed over.
ListOrders(n) == Permutations(1..n)

\* The same records handed over in the order p.
Permuted(s, p) == [k \in 1..Len(s) |-> s[p[k]]]

\* No comparison has been asked for.
CompareIdle ==
    /\ actual_trades = << >>
    /\ ai_trades = << >>
    /\ comparison = [performance_comparison |-> "none"]

\* No token has been revoked and no request has been served.
AuthIdle ==
    /\ blacklisted_tokens = {}
    /\ requests = << >>

\* No generate_signals run is in progress.
SignalsIdle ==
    /\ strategy = "none"
    /\ df = << >>
    /\ bar = NoBar
    /\ loc = InitialLocals
    /\ phase = "idle"
    /\ current_signal = "HOLD"
    /\ patterns = << >>
    /\ pattern_idx = 0
    /\ pattern_signals = {}

InitWith(Domain, n) ==
    /\ trades \in SeqsUpTo(Domain, n)
    /\ original = trades
    /\ results = << >>
    /\ SignalsIdle
    /\ CompareIdle
    /\ AuthIdle

\* Well-formed RawTrade lists.
Init == InitWith(RawTrade, MaxTrades)

\* Lists that may hold malformed records.
InitMalformed == InitWith(AnyTrade, MaxMalformed)

\* The caller keeps the response r and the list holds what the call left.
Returned(r) ==
    /\ results' = Append(results, [success |-> r.success, error |-> r.error,
                                   summary |-> r.summary, trades |-> r.trades])
    /\ trades' = r.records

\* One call of calculate_pnl_from_trades on the loaded list.
CalculatePnl ==
    /\ Len(results) < MaxRuns
    /\ Returned(CalculatePnlFromTrades(trades))
    /\ UNCHANGED original
    /\ UNCHANGED signalVars
    /\ UNCHANGED compareVars
    /\ UNCHANGED authVars

Next == CalculatePnl

Spec == Init /\ [][Next]_vars

SpecMalformed == InitMalformed /\ [][Next]_vars

\* ------------------------------------------------------------------------
\* Strategy signal loops: bounds, parameters and candle values
\* ------------------------------------------------------------------------
\* The longest frame a run fetches.
MaxBars == 8

\* Constructor parameters of the strategies under analysis.
FastPeriod == 2
SlowPeriod == 3
BBPeriod == 6
VolumePeriod == 3
TrendlineLookback == 3
RsiPeriod == 2

\* Constants of the source.
StdDev == 2
SpikeMultiplier == 2
PriceChangeThresholdPct == 1
TakeProfitPct == 105
StopLossPct == 97
MaxHoldPeriods == 24
MinLookback == 3
MinCandlesBetweenSignals == 3
OversoldLevel == 30

\* Closing prices of the moving-average and Bollinger frames.
Closes == {1, 2, 50}

\* <<open, close>> of a volume-spike candle: +6 %, -4 % and +5.3 %.
PricePairs == {<<100, 106>>, <<100, 96>>, <<95, 100>>}

\* <<open, close>> of the candles before the volume average exists.
FlatPair == <<100, 100>>

Volumes == {1, 5}

\* Closing prices of the RSI frame.
RsiCloses == {1, 2}

LoopStrategies == {"ma", "bb", "vs", "tl", "rsi"}

\* ------------------------------------------------------------------------
\* Rolling windows (pandas rolling(window=period))
\* ------------------------------------------------------------------------
\* Bar i of a column, bars counted from 0 as iloc does.
At(column, i) == column[i + 1]

\* rolling(period) is NaN until the window is full.
RollingDefined(i, period) == i >= period - 1

RECURSIVE WindowSum(_, _, _)
\* The sum of the period values of the column that end at bar i.
WindowSum(column, i, period) ==
    IF period = 0 THEN 0
    ELSE At(column, i) + WindowSum(column, i - 1, period - 1)

RECURSIVE WindowSumSq(_, _, _)
\* The sum of their squares.
WindowSumSq(column, i, period) ==
    IF period = 0 THEN 0
    ELSE At(column, i) * At(column, i) + WindowSumSq(column, i - 1, period - 1)

CloseColumn(rows) == [k \in 1..Len(rows) |-> rows[k].close]

VolumeColumn(rows) == [k \in 1..Len(rows) |-> rows[k].volume]

\* The three columns every strategy's loop writes.
SignalColumns(buy, sell, position) ==
    [buy_signal |-> buy, sell_signal |-> sell, position |-> position]

\* ------------------------------------------------------------------------
\* MovingAverageCrossoverStrategy.generate_signals
\* ------------------------------------------------------------------------
\* fast_ma and slow_ma are both numbers at bar i.
MaDefined(i) ==
    i >= 0 /\ RollingDefined(i, FastPeriod) /\ RollingDefined(i, SlowPeriod)

\* fast_ma - slow_ma at bar i, times FastPeriod * SlowPeriod: its sign is the
\* sign of the difference of the two means.
MaSpread(closes, i) ==
    WindowSum(closes, i, FastPeriod) * SlowPeriod
        - WindowSum(closes, i, SlowPeriod) * FastPeriod

MaBuyCrossAnyPosition(closes, i, current_position) ==
    MaSpread(closes, i - 1) <= 0 /\ MaSpread(closes, i) > 0

\* Golden cross while flat.
MaBuyCross(closes, i, current_position) ==
    /\ MaSpread(closes, i - 1) <= 0
    /\ MaSpread(closes, i) > 0
    /\ current_position = 0

MaSellCrossStrict(closes, i, current_position) ==
    /\ MaSpread(closes, i - 1) > 0
    /\ MaSpread(closes, i) < 0
    /\ current_position = 1

\* Death cross while long.
MaSellCross(closes, i, current_position) ==
    /\ MaSpread(closes, i - 1) >= 0
    /\ MaSpread(closes, i) < 0
    /\ current_position = 1

MaIterationBuyingUndefined(closes, i, current_position) ==
    IF ~(MaDefined(i) /\ MaDefined(i - 1))
    THEN SignalColumns(1, 0, 1)
    ELSE IF MaBuyCross(closes, i, current_position)
    THEN SignalColumns(1, 0, 1)
    ELSE IF MaSellCross(closes, i, current_position)
    THEN SignalColumns(0, 1, 0)
    ELSE SignalColumns(0, 0, current_position)

\* One iteration of the loop: the columns written at bar i; position is
\* current_position after the iteration.
MaIteration(closes, i, current_position) ==
    IF ~(MaDefined(i) /\ MaDefined(i - 1))
    THEN SignalColumns(0, 0, current_position)
    ELSE IF MaBuyCross(closes, i, current_position)
    THEN SignalColumns(1, 0, 1)
    ELSE IF MaSellCross(closes, i, current_position)
    THEN SignalColumns(0, 1, 0)
    ELSE SignalColumns(0, 0, current_position)

\* current_signal from the last bar's averages and position.
MaCurrentSignal(rows) ==
    LET i == Len(rows) - 1
        last_position == rows[Len(rows)].position
    IN  IF ~MaDefined(i) THEN "HOLD"
        ELSE IF MaSpread(CloseColumn(rows), i) > 0 /\ last_position = 0 THEN "BUY"
        ELSE IF MaSpread(CloseColumn(rows), i) < 0 /\ last_position = 1 THEN "SELL"
        ELSE IF last_position = 1 THEN "HOLD LONG"
        ELSE "HOLD"

\* ------------------------------------------------------------------------
\* BollingerBandsStrategy.generate_signals
\* ------------------------------------------------------------------------
\* With n = BBPeriod, S and Q the window's sum and sum of squares and c the
\* close: middle = S/n, std = sqrt(V / (n(n-1))) with V = nQ - S*S (the
\* sample deviation, ddof = 1), upper/lower = middle +- StdDev * std.
BandsDefined(i) == i >= 0 /\ RollingDefined(i, BBPeriod)

BandSum(closes, i) == WindowSum(closes, i, BBPeriod)

BandVariance(closes, i) ==
    BBPeriod * WindowSumSq(closes, i, BBPeriod)
        - BandSum(closes, i) * BandSum(closes, i)

\* n * (middle - close) at bar i.
BelowMiddleBy(closes, i) == BandSum(closes, i) - BBPeriod * At(closes, i)

\* distance >= factor/5 * StdDev * std, for a distance given times n
\* (factor 5 is the band itself, factor 4 is 0.8 of the way to it).
BeyondBand(closes, i, distance, factor) ==
    /\ distance >= 0
    /\ 25 * (BBPeriod - 1) * distance * distance
         >= factor * factor * StdDev * StdDev * BBPeriod * BandVariance(closes, i)

\* current_price <= current_lower
AtOrBelowLower(closes, i) == BeyondBand(closes, i, BelowMiddleBy(closes, i), 5)

\* current_price >= current_upper
AtOrAboveUpper(closes, i) == BeyondBand(closes, i, -BelowMiddleBy(closes, i), 5)

\* bb_percent <= 0.1; bb_percent is NaN (0/0) when the bands coincide.
PercentNearLower(closes, i) ==
    /\ BandVariance(closes, i) > 0
    /\ BeyondBand(closes, i, BelowMiddleBy(closes, i), 4)

\* bb_percent >= 0.9
PercentNearUpper(closes, i) ==
    /\ BandVariance(closes, i) > 0
    /\ BeyondBand(closes, i, -BelowMiddleBy(closes, i), 4)

\* prev_price >= df.iloc[i-1]['bb_middle']; false when that middle is NaN.
AtOrAboveMiddle(closes, i) ==
    BandsDefined(i) /\ BelowMiddleBy(closes, i) <= 0

\* One iteration of the loop.
BbIteration(closes, i, current_position) ==
    IF ~BandsDefined(i)
    THEN SignalColumns(0, 0, current_position)
    ELSE IF AtOrBelowLower(closes, i) /\ current_position = 0
    THEN IF PercentNearLower(closes, i)
         THEN SignalColumns(1, 0, 1)
         ELSE SignalColumns(0, 0, current_position)
    ELSE IF AtOrAboveUpper(closes, i) /\ current_position = 1
    THEN IF PercentNearUpper(closes, i)
         THEN SignalColumns(0, 1, 0)
         ELSE SignalColumns(0, 0, current_position)
    ELSE IF BelowMiddleBy(closes, i) > 0 /\ current_position = 1
    THEN IF AtOrAboveMiddle(closes, i - 1)
         THEN SignalColumns(0, 1, 0)
         ELSE SignalColumns(0, 0, current_position)
    ELSE SignalColumns(0, 0, current_position)

\* current_signal from the last bar's bands and position.
BbCurrentSignal(rows) ==
    LET i == Len(rows) - 1
        closes == CloseColumn(rows)
        last_position == rows[Len(rows)].position
    IN  IF ~BandsDefined(i) THEN "HOLD"
        ELSE IF AtOrBelowLower(closes, i) /\ last_position = 0 THEN "BUY"
        ELSE IF AtOrAboveUpper(closes, i) /\ last_position = 1 THEN "SELL"
        ELSE IF last_position = 1 THEN "HOLD LONG"
        ELSE "HOLD"

\* ------------------------------------------------------------------------
\* VolumeSpikeStrategy.calculate_volume_indicators and generate_signals
\* ------------------------------------------------------------------------
\* volume_ratio > spike_multiplier; the ratio is NaN until volume_ma exists.
VolumeSpike(rows, i) ==
    /\ RollingDefined(i, VolumePeriod)
    /\ At(rows, i).volume * VolumePeriod
         > SpikeMultiplier * WindowSum(VolumeColumn(rows), i, VolumePeriod)

\* current_volume_ratio >= self.spike_multiplier
RatioConfirmsSpike(rows, i) ==
    At(rows, i).volume * VolumePeriod
        >= SpikeMultiplier * WindowSum(VolumeColumn(rows), i, VolumePeriod)

\* price_change in percent of the open, times the open.
PriceChangeTimesOpen(row) == 100 * (row.close - row.open)

BullishSpike(rows, i) ==
    /\ VolumeSpike(rows, i)
    /\ PriceChangeTimesOpen(At(rows, i)) > PriceChangeThresholdPct * At(rows, i).open

BearishSpike(rows, i) ==
    /\ VolumeSpike(rows, i)
    /\ PriceChangeTimesOpen(At(rows, i)) < -(PriceChangeThresholdPct * At(rows, i).open)

\* current_price >= entry_price * 1.05
TakeProfit(price, entry_price) == 100 * price >= TakeProfitPct * entry_price

\* current_price <= entry_price * 0.97
StopLoss(price, entry_price) == 100 * price <= StopLossPct * entry_price

\* What one iteration writes at bar i and leaves in the loop's locals.
LoopResult(buy, sell, locals) ==
    [buy_signal |-> buy, sell_signal |-> sell,
     position |-> locals.current_position, locals |-> locals]

\* The locals after a sell: flat, the bar count reset, entry_price kept.
VsClosed(locals) ==
    [locals EXCEPT !.current_position = 0, !.bars_in_position = 0]

VsIterationHoldingLonger(rows, i, locals) ==
    IF ~RollingDefined(i, VolumePeriod)
    THEN LoopResult(0, 0, locals)
    ELSE IF BullishSpike(rows, i) /\ locals.current_position = 0
    THEN IF RatioConfirmsSpike(rows, i)
         THEN LoopResult(1, 0, [locals EXCEPT !.current_position = 1,
                                              !.entry_price = At(rows, i).close,
                                              !.bars_in_position = 0])
         ELSE LoopResult(0, 0, locals)
    ELSE IF locals.current_position = 1
    THEN LET held == [locals EXCEPT !.bars_in_position = @ + 1]
         IN  IF BearishSpike(rows, i)
             THEN LoopResult(0, 1, VsClosed(held))
             ELSE IF TakeProfit(At(rows, i).close, held.entry_price)
             THEN LoopResult(0, 1, VsClosed(held))
             ELSE IF StopLoss(At(rows, i).close, held.entry_price)
             THEN LoopResult(0, 1, VsClosed(held))
             ELSE IF held.bars_in_position > MaxHoldPeriods
             THEN LoopResult(0, 1, VsClosed(held))
             ELSE LoopResult(0, 0, held)
    ELSE LoopResult(0, 0, locals)

\* One iteration of the loop; rows holds bar i with its input columns.
VsIteration(rows, i, locals) ==
    IF ~RollingDefined(i, VolumePeriod)
    THEN LoopResult(0, 0, locals)
    ELSE IF BullishSpike(rows, i) /\ locals.current_position = 0
    THEN IF RatioConfirmsSpike(rows, i)
         THEN LoopResult(1, 0, [locals EXCEPT !.current_position = 1,
                                              !.entry_price = At(rows, i).close,
                                              !.bars_in_position = 0])
         ELSE LoopResult(0, 0, locals)
    ELSE IF locals.current_position = 1
    THEN LET held == [locals EXCEPT !.bars_in_position = @ + 1]
         IN  IF BearishSpike(rows, i)
             THEN LoopResult(0, 1, VsClosed(held))
             ELSE IF TakeProfit(At(rows, i).close, held.entry_price)
             THEN LoopResult(0, 1, VsClosed(held))
             ELSE IF StopLoss(At(rows, i).close, held.entry_price)
             THEN LoopResult(0, 1, VsClosed(held))
             ELSE IF held.bars_in_position >= MaxHoldPeriods
             THEN LoopResult(0, 1, VsClosed(held))
             ELSE LoopResult(0, 0, held)
    ELSE LoopResult(0, 0, locals)

\* current_signal from the last bar's spikes and position.
VsCurrentSignal(rows) ==
    LET i == Len(rows) - 1
        last_position == rows[Len(rows)].position
    IN  IF ~RollingDefined(i, VolumePeriod) THEN "HOLD"
        ELSE IF BullishSpike(rows, i) /\ last_position = 0 THEN "BUY"
        ELSE IF BearishSpike(rows, i) /\ last_position = 1 THEN "SELL"
        ELSE IF last_position = 1 THEN "HOLD LONG"
        ELSE "HOLD"

\* ------------------------------------------------------------------------
\* trendline_breakout and detect_local_level_breaks, by their outputs
\* ------------------------------------------------------------------------
\* The fitted lines are not computed: each bar's close lies below, on or
\* above the support line and the resistance line, and a cross is derived
\* from two consecutive bars as the source derives it.  A level break is an
\* input of each bar.
LineSides == {"below", "on", "above"}

\* lookback, never less than 3.
Lookback ==
    IF TrendlineLookback < MinLookback THEN MinLookback ELSE TrendlineLookback

\* prev_day_s_cross / prev_day_r_cross at a bar; a NaN line compares false.
Cross(prev_side, side) ==
    IF prev_side = "below" /\ side = "above" THEN 1
    ELSE IF prev_side = "above" /\ side = "below" THEN -1
    ELSE 0

\* low <= trendline_support * 1.001 at a bar: certain when the close is not
\* above the support, open when it is (only the RSI loop reads it).
TouchChoices(side, reads_low) ==
    IF side = "above" THEN (IF reads_low THEN BOOLEAN ELSE {FALSE}) ELSE {TRUE}

\* The columns bar i may hold after the bar prev.
TrendlineBars(i, prev, reads_low) ==
    IF i < Lookback
    THEN {[NoBar EXCEPT !.level_breaks = l] : l \in {-1, 0}}
    ELSE UNION {
           {[support_side |-> s, resist_side |-> r, touched |-> t,
             support_cross |-> Cross(prev.support_side, s),
             resist_cross |-> Cross(prev.resist_side, r),
             level_breaks |-> l] : t \in TouchChoices(s, reads_low)}
           : s \in LineSides, r \in LineSides, l \in {-1, 0}}

\* detect_local_level_breaks marks a bar only when the close fell through a
\* level: previous_price >= level > current_price.
FallsIfLevelBreak(previous_price, current_price, b) ==
    b.level_breaks = -1 => current_price < previous_price

\* current_signal of both trendline strategies: from the last bar's columns.
TrendlineCurrentSignal(rows) ==
    LET last == rows[Len(rows)]
    IN  IF last.buy_signal = 1 THEN "BUY"
        ELSE IF last.sell_signal = 1 THEN "SELL"
        ELSE IF last.position = 1 THEN "HOLD LONG"
        ELSE "HOLD CASH"

\* ------------------------------------------------------------------------
\* TrendlineBreakoutStrategy.generate_signals
\* ------------------------------------------------------------------------
DefaultPosition(rows, i) == 0

\* data['position'].iloc[i-1], which the loop copies into bar i first.
CarriedPosition(rows, i) == At(rows, i - 1).position

\* One iteration of the loop on the columns b of bar i.
TlIteration(carried, b) ==
    IF carried = 0 /\ (b.support_cross = 1 \/ b.resist_cross = 1)
    THEN SignalColumns(1, 0, 1)
    ELSE IF carried = 1 /\ (\/ b.support_cross = -1
                            \/ b.resist_cross = -1
                            \/ b.level_breaks = -1)
    THEN SignalColumns(0, 1, 0)
    ELSE SignalColumns(0, 0, carried)

\* ------------------------------------------------------------------------
\* RSIStrategy.calculate_rsi
\* ------------------------------------------------------------------------
\* delta.where(delta > 0, 0) at bar i: the rise since the bar before, 0 when
\* the price did not rise and 0 at bar 0, whose delta is NaN.
Gain(closes, i) ==
    IF i > 0 /\ At(closes, i) > At(closes, i - 1)
    THEN At(closes, i) - At(closes, i - 1) ELSE 0

\* -delta.where(delta < 0, 0) at bar i.
Loss(closes, i) ==
    IF i > 0 /\ At(closes, i) < At(closes, i - 1)
    THEN At(closes, i - 1) - At(closes, i) ELSE 0

RECURSIVE GainSum(_, _, _)
\* period times the rolling mean of the gains that ends at bar i.
GainSum(closes, i, period) ==
    IF period = 0 THEN 0
    ELSE Gain(closes, i) + GainSum(closes, i - 1, period - 1)

RECURSIVE LossSum(_, _, _)
LossSum(closes, i, period) ==
    IF period = 0 THEN 0
    ELSE Loss(closes, i) + LossSum(closes, i - 1, period - 1)

\* 100 - 100 / (1 + gain / loss) for the window sums g and l, as a fraction
\* <<numerator, denominator>>; << >> is NaN.  A zero loss with a gain makes
\* rs infinite and the value 100; zero gain and zero loss make rs 0/0 = NaN.
RsiOf(g, l) ==
    IF l = 0
    THEN (IF g = 0 THEN << >> ELSE <<100, 1>>)
    ELSE <<100 * g, g + l>>

\* rsi at bar i: NaN until the rolling window is full.
CalculateRsi(closes, i, period) ==
    IF ~RollingDefined(i, period) THEN << >>
    ELSE RsiOf(GainSum(closes, i, period), LossSum(closes, i, period))

\* ------------------------------------------------------------------------
\* RSIStrategy.generate_signals
\* ------------------------------------------------------------------------
\* candles_since_last_signal >= min_candles_between_signals
Spaced(i, locals) == i - locals.last_signal_index >= MinCandlesBetweenSignals

\* The locals after a signal at bar i.
RsiSignalled(locals, i, position) ==
    [locals EXCEPT !.current_position = position, !.last_signal_index = i]

\* One iteration of the loop on the columns b of bar i; prev is bar i-1.
RsiIteration(i, locals, prev, b) ==
    IF /\ locals.current_position = 0
       /\ Spaced(i, locals)
       /\ \/ b.support_cross = 1
          \/ (b.resist_cross = 1 /\ b.support_side = "above")
    THEN LoopResult(1, 0, RsiSignalled(locals, i, 1))
    ELSE IF /\ locals.current_position = 0
            /\ Spaced(i, locals)
            /\ i > 2
            /\ b.support_side # "nan"
            /\ prev.touched
            /\ b.support_side = "above"
    THEN LoopResult(1, 0, RsiSignalled(locals, i, 1))
    ELSE IF /\ locals.current_position = 1
            /\ Spaced(i, locals)
            /\ \/ b.support_cross = -1
               \/ b.resist_cross = -1
               \/ b.level_breaks = -1
    THEN LoopResult(0, 1, RsiSignalled(locals, i, 0))
    ELSE LoopResult(0, 0, locals)

\* ------------------------------------------------------------------------
\* ReversalPatternsStrategy.generate_signals
\* ------------------------------------------------------------------------
\* The bars fetched after the first full volume window, and the most
\* patterns detected in the frame.
RevBars == 3
MaxPatterns == 2

\* Constants of the source: the volume average's window, the breakout search
\* window, the volume confirmation (1.15) and the ratio assumed for a NaN
\* volume_ratio (1.0), the last two in hundredths.
VolumeMaPeriod == 20
BreakoutSearchBars == 20
VolumeThresholdPct == 115
NanRatioPct == 100

\* The frame: VolumeMaPeriod - 1 bars without a volume average, then RevBars.
FrameLen == VolumeMaPeriod - 1 + RevBars

RevCloses == {1, 3}
RevVolumes == {100, 200}
Necklines == {2}

\* A row of the reversal frame.
ReversalRow(close, volume) ==
    [close |-> close, volume |-> volume,
     buy_signal |-> 0, sell_signal |-> 0, position |-> 0]

\* The bars before the first full volume window.
WarmUpRow == ReversalRow(3, 100)

\* A detected pattern, by the fields the signal loop reads; end_idx is
\* get_pattern_end_index(pattern).  Peak detection itself is not modelled.
Pattern ==
    [end_idx : (VolumeMaPeriod - 3)..(FrameLen - 1),
     direction : {"bearish", "bullish"},
     neckline_price : Necklines]

\* current_volume_ratio >= self.volume_threshold, where the ratio is
\* volume / volume_ma, or 1.0 while volume_ma is NaN.
VolumeConfirms(rows, i) ==
    IF ~RollingDefined(i, VolumeMaPeriod)
    THEN NanRatioPct >= VolumeThresholdPct
    ELSE 100 * At(rows, i).volume * VolumeMaPeriod
           >= VolumeThresholdPct * WindowSum(VolumeColumn(rows), i, VolumeMaPeriod)

\* The neckline break with volume confirmation the search looks for.
Breakout(rows, i, pattern) ==
    /\ VolumeConfirms(rows, i)
    /\ \/ pattern.direction = "bearish"
          /\ At(rows, i).close < pattern.neckline_price
       \/ pattern.direction = "bullish"
          /\ At(rows, i).close > pattern.neckline_price

\* range(pattern_end_idx + 1, min(pattern_end_idx + 20, len(df)))
SearchRange(rows, pattern) ==
    (pattern.end_idx + 1) ..
        (Min(pattern.end_idx + BreakoutSearchBars, Len(rows)) - 1)

BreakoutBars(rows, pattern) ==
    {i \in SearchRange(rows, pattern) : Breakout(rows, i, pattern)}

\* The bar the search stops at (its break).
FirstBreakout(rows, pattern) ==
    CHOOSE i \in BreakoutBars(rows, pattern) :
        \A j \in BreakoutBars(rows, pattern) : i <= j

\* The frame after the search for one pattern: the signal of its direction
\* is set at the first breakout bar, whatever the bar already holds.
MarkBreakout(rows, pattern) ==
    IF BreakoutBars(rows, pattern) = {} THEN rows
    ELSE IF pattern.direction = "bearish"
    THEN [rows EXCEPT ![FirstBreakout(rows, pattern) + 1].sell_signal = 1]
    ELSE [rows EXCEPT ![FirstBreakout(rows, pattern) + 1].buy_signal = 1]

\* current_pos after bar i of the position pass: 1 after a buy, -1 after a
\* sell, a buy taking precedence on a bar with both.
RECURSIVE CurrentPos(_, _)
CurrentPos(rows, i) ==
    IF i < 0 THEN 0
    ELSE IF At(rows, i).buy_signal = 1 THEN 1
    ELSE IF At(rows, i).sell_signal = 1 THEN -1
    ELSE CurrentPos(rows, i - 1)

WithPositions(rows) ==
    [k \in 1..Len(rows) |-> [rows[k] EXCEPT !.position = CurrentPos(rows, k - 1)]]

\* all_patterns[-3:]
LastThree(ps) ==
    IF Len(ps) <= 3 THEN ps ELSE SubSeq(ps, Len(ps) - 2, Len(ps))

\* The pattern is near its breakout level while flat.
Watching(pattern, last_price, last_position) ==
    /\ last_position = 0
    /\ \/ pattern.direction = "bearish"
          /\ 1000 * last_price > 995 * pattern.neckline_price
       \/ pattern.direction = "bullish"
          /\ 1000 * last_price < 1005 * pattern.neckline_price

RevCurrentSignal(rows, ps) ==
    LET last == rows[Len(rows)]
        recent == LastThree(ps)
        watched == {k \in 1..Len(recent) :
                        Watching(recent[k], last.close, last.position)}
        first == CHOOSE k \in watched : \A j \in watched : k <= j
    IN  IF watched # {}
        THEN (IF recent[first].direction = "bearish"
              THEN "WATCH SELL" ELSE "WATCH BUY")
        ELSE IF last.position = 1 THEN "HOLD LONG"
        ELSE IF last.position = -1 THEN "HOLD SHORT"
        ELSE "HOLD"

\* ------------------------------------------------------------------------
\* Signal runs: initial states and actions
\* ------------------------------------------------------------------------
NoSignals == SignalColumns(0, 0, 0)

\* A row of the moving-average and Bollinger frames.
CandleRow(close, out) ==
    [close |-> close, buy_signal |-> out.buy_signal,
     sell_signal |-> out.sell_signal, position |-> out.position]

\* A row of the volume-spike frame.
VolumeRow(pair, volume, out) ==
    [open |-> pair[1], close |-> pair[2], volume |-> volume,
     buy_signal |-> out.buy_signal, sell_signal |-> out.sell_signal,
     position |-> out.position]

\* A row of the trendline frames: the columns the loops write.
SignalRow(out) == SignalColumns(out.buy_signal, out.sell_signal, out.position)

\* A row of the RSI strategy's frame; closes holds the bars up to this one.
RsiRow(closes, out) ==
    [close |-> closes[Len(closes)],
     rsi |-> CalculateRsi(closes, Len(closes) - 1, RsiPeriod),
     buy_signal |-> out.buy_signal, sell_signal |-> out.sell_signal,
     position |-> out.position]

\* The bars no loop iteration visits: bar 0, and for the volume-spike loop
\* every bar before volume_period.  Their signal columns stay 0.
FirstRows(s) ==
    CASE s \in {"ma", "bb"} -> {<< CandleRow(c, NoSignals) >> : c \in Closes}
      [] s = "vs" -> {[k \in 1..VolumePeriod |-> VolumeRow(FlatPair, v[k], NoSignals)]
                         : v \in [1..VolumePeriod -> Volumes]}
      [] s = "rsi" -> {<< RsiRow(<< c >>, NoSignals) >> : c \in RsiCloses}
      [] OTHER -> {<< NoSignals >>}

\* The frame is fetched and the signal columns are initialised.
InitSignals ==
    /\ trades = << >>
    /\ original = << >>
    /\ results = << >>
    /\ strategy \in LoopStrategies
    /\ df \in FirstRows(strategy)
    /\ bar = NoBar
    /\ loc = InitialLocals
    /\ phase = "loop"
    /\ current_signal = "HOLD"
    /\ patterns = << >>
    /\ pattern_idx = 0
    /\ pattern_signals = {}
    /\ CompareIdle
    /\ AuthIdle

InitReversal ==
    /\ trades = << >>
    /\ original = << >>
    /\ results = << >>
    /\ strategy = "rev"
    /\ df \in {[k \in 1..(VolumeMaPeriod - 1) |-> WarmUpRow] \o tail :
                 tail \in [1..RevBars ->
                             {ReversalRow(c, v) : c \in RevCloses, v \in RevVolumes}]}
    /\ bar = NoBar
    /\ loc = InitialLocals
    /\ phase = "patterns"
    /\ current_signal = "HOLD"
    /\ patterns \in SeqsUpTo(Pattern, MaxPatterns)
    /\ pattern_idx = 0
    /\ pattern_signals = {}
    /\ CompareIdle
    /\ AuthIdle

\* The loop has a next bar i = Len(df).
InLoop(s) == strategy = s /\ phase = "loop" /\ Len(df) < MaxBars

\* One iteration of the moving-average loop.
MaStep ==
    /\ InLoop("ma")
    /\ \E close \in Closes :
         LET out == MaIteration(Append(CloseColumn(df), close), Len(df),
                                loc.current_position)
         IN  /\ df' = Append(df, CandleRow(close, out))
             /\ loc' = [loc EXCEPT !.current_position = out.position]
    /\ UNCHANGED << strategy, bar, phase, current_signal,
                    patterns, pattern_idx, pattern_signals >>
    /\ UNCHANGED ledgerVars
    /\ UNCHANGED compareVars
    /\ UNCHANGED authVars

\* One iteration of the Bollinger loop.
BbStep ==
    /\ InLoop("bb")
    /\ \E close \in Closes :
         LET out == BbIteration(Append(CloseColumn(df), close), Len(df),
                                loc.current_position)
         IN  /\ df' = Append(df, CandleRow(close, out))
             /\ loc' = [loc EXCEPT !.current_position = out.position]
    /\ UNCHANGED << strategy, bar, phase, current_signal,
                    patterns, pattern_idx, pattern_signals >>
    /\ UNCHANGED ledgerVars
    /\ UNCHANGED compareVars
    /\ UNCHANGED authVars

\* One iteration of the volume-spike loop.
VsStep ==
    /\ InLoop("vs")
    /\ \E pair \in PricePairs, volume \in Volumes :
         LET out == VsIteration(Append(df, VolumeRow(pair, volume, NoSignals)),
                                Len(df), loc)
         IN  /\ df' = Append(df, VolumeRow(pair, volume, out))
             /\ loc' = out.locals
    /\ UNCHANGED << strategy, bar, phase, current_signal,
                    patterns, pattern_idx, pattern_signals >>
    /\ UNCHANGED ledgerVars
    /\ UNCHANGED compareVars
    /\ UNCHANGED authVars

\* One iteration of the TrendlineBreakoutStrategy loop.
TlStep ==
    /\ InLoop("tl")
    /\ \E b \in TrendlineBars(Len(df), bar, FALSE) :
         /\ df' = Append(df, SignalRow(TlIteration(CarriedPosition(df, Len(df)), b)))
         /\ bar' = b
    /\ UNCHANGED << strategy, loc, phase, current_signal,
                    patterns, pattern_idx, pattern_signals >>
    /\ UNCHANGED ledgerVars
    /\ UNCHANGED compareVars
    /\ UNCHANGED authVars

\* One iteration of the RSIStrategy loop.
RsiStep ==
    /\ InLoop("rsi")
    /\ \E close \in RsiCloses, b \in TrendlineBars(Len(df), bar, TRUE) :
         LET out == RsiIteration(Len(df), loc, bar, b)
         IN  /\ FallsIfLevelBreak(df[Len(df)].close, close, b)
             /\ df' = Append(df, RsiRow(Append(CloseColumn(df), close), out))
             /\ loc' = out.locals
             /\ bar' = b
    /\ UNCHANGED << strategy, phase, current_signal,
                    patterns, pattern_idx, pattern_signals >>
    /\ UNCHANGED ledgerVars
    /\ UNCHANGED compareVars
    /\ UNCHANGED authVars

\* current_signal as each strategy determines it after its loop.
CurrentSignal(s, rows) ==
    CASE s = "ma" -> MaCurrentSignal(rows)
      [] s = "bb" -> BbCurrentSignal(rows)
      [] s = "vs" -> VsCurrentSignal(rows)
      [] OTHER -> TrendlineCurrentSignal(rows)

\* How many rows of the frame have the flag set: len(df[df[flag] == 1]).
RECURSIVE CountFlag(_, _)
CountFlag(rows, flag) ==
    IF rows = << >> THEN 0
    ELSE (IF rows[1][flag] = 1 THEN 1 ELSE 0) + CountFlag(Tail(rows), flag)

\* What generate_signals returns for a fetched frame.  The moving-average
\* strategy returns a dict with success True whatever the frame's length; the
\* trendline strategy returns the frame itself.  Neither looks at the number
\* of rows before it returns.
GenerateSignalsResult(s, rows) ==
    IF s = "ma"
    THEN [returned |-> "dict", success |-> TRUE,
          current_signal |-> MaCurrentSignal(rows),
          total_buy_signals |-> CountFlag(rows, "buy_signal"),
          total_sell_signals |-> CountFlag(rows, "sell_signal"),
          analysis_data |-> rows]
    ELSE [returned |-> "frame", analysis_data |-> rows]

\* The loop has run over the whole frame and the result is built.
Finish ==
    /\ strategy \in LoopStrategies
    /\ phase = "loop"
    /\ phase' = "done"
    /\ current_signal' = CurrentSignal(strategy, df)
    /\ UNCHANGED << strategy, df, bar, loc, patterns, pattern_idx, pattern_signals >>
    /\ UNCHANGED ledgerVars
    /\ UNCHANGED compareVars
    /\ UNCHANGED authVars

\* One iteration of the reversal strategy's loop over all_patterns.
SearchPattern ==
    /\ strategy = "rev"
    /\ phase = "patterns"
    /\ pattern_idx < Len(patterns)
    /\ df' = MarkBreakout(df, patterns[pattern_idx + 1])
    /\ pattern_signals' =
         IF BreakoutBars(df, patterns[pattern_idx + 1]) = {}
         THEN pattern_signals
         ELSE pattern_signals \cup {pattern_idx}
    /\ pattern_idx' = pattern_idx + 1
    /\ UNCHANGED << strategy, bar, loc, phase, current_signal, patterns >>
    /\ UNCHANGED ledgerVars
    /\ UNCHANGED compareVars
    /\ UNCHANGED authVars

\* The position pass over the frame and the result's current_signal.
UpdatePositions ==
    /\ strategy = "rev"
    /\ phase = "patterns"
    /\ pattern_idx = Len(patterns)
    /\ df' = WithPositions(df)
    /\ current_signal' = RevCurrentSignal(WithPositions(df), patterns)
    /\ phase' = "done"
    /\ UNCHANGED << strategy, bar, loc, patterns, pattern_idx, pattern_signals >>
    /\ UNCHANGED ledgerVars
    /\ UNCHANGED compareVars
    /\ UNCHANGED authVars

NextSignals == MaStep \/ BbStep \/ VsStep \/ TlStep \/ RsiStep \/ Finish

NextReversal == SearchPattern \/ UpdatePositions

SpecSignals == InitSignals /\ [][NextSignals]_vars

SpecReversal == InitReversal /\ [][NextReversal]_vars

\* ------------------------------------------------------------------------
\* The strategy service (services/strategy_service.py)
\* ------------------------------------------------------------------------
\* The longest analysis frame handed to get_current_signal.
MaxFrameRows == 2

\* The column sets an analysis frame can arrive with: the buy_signal /
\* sell_signal layout and the single signal column, each with or without a
\* position column, and a frame with neither.
Layouts ==
    {{"buy_signal", "sell_signal", "position"}, {"buy_signal", "sell_signal"},
     {"signal", "position"}, {"signal"}, {"position"}}

\* The values a column holds: the flags are 0 or 1, signal and position are
\* -1, 0 or 1.
ColumnValues(column) ==
    IF column \in {"buy_signal", "sell_signal"} THEN {0, 1} ELSE {-1, 0, 1}

\* Every row of a frame with these columns.
AnalysisRows(columns) ==
    {row \in [columns -> {-1, 0, 1}] :
        \A column \in columns : row[column] \in ColumnValues(column)}

\* 'column' in analysis_data.columns
HasColumn(rows, column) == column \in DOMAIN rows[1]

\* analysis_data[column].iloc[-1]
ILocLast(rows, column) == rows[Len(rows)][column]

\* StrategyService.get_current_signal, branch by branch.
GetCurrentSignal(rows) ==
    IF HasColumn(rows, "buy_signal") /\ HasColumn(rows, "sell_signal")
    THEN IF ILocLast(rows, "buy_signal") = 1 THEN "BUY"
         ELSE IF ILocLast(rows, "sell_signal") = 1 THEN "SELL"
         ELSE IF HasColumn(rows, "position")
              THEN IF ILocLast(rows, "position") = 1 THEN "HOLD LONG"
                   ELSE "HOLD CASH"
              ELSE "HOLD"
    ELSE IF HasColumn(rows, "signal")
    THEN IF ILocLast(rows, "signal") = 1 THEN "BUY"
         ELSE IF ILocLast(rows, "signal") = -1 THEN "SELL"
         ELSE IF HasColumn(rows, "position")
              THEN IF ILocLast(rows, "position") = 1 THEN "HOLD LONG"
                   ELSE IF ILocLast(rows, "position") = -1 THEN "HOLD SHORT"
                   ELSE "HOLD"
              ELSE "HOLD"
    ELSE "HOLD"

\* An analysis frame of one layout has been handed to the service.
InitService ==
    /\ trades = << >>
    /\ original = << >>
    /\ results = << >>
    /\ strategy = "service"
    /\ \E columns \in Layouts, n \in 1..MaxFrameRows :
         df \in [1..n -> AnalysisRows(columns)]
    /\ bar = NoBar
    /\ loc = InitialLocals
    /\ phase = "analysis"
    /\ current_signal = "HOLD"
    /\ patterns = << >>
    /\ pattern_idx = 0
    /\ pattern_signals = {}
    /\ CompareIdle
    /\ AuthIdle

\* get_current_signal(analysis_data) returns.
GetSignal ==
    /\ strategy = "service"
    /\ phase = "analysis"
    /\ phase' = "done"
    /\ current_signal' = GetCurrentSignal(df)
    /\ UNCHANGED << strategy, df, bar, loc, patterns, pattern_idx, pattern_signals >>
    /\ UNCHANGED ledgerVars
    /\ UNCHANGED compareVars
    /\ UNCHANGED authVars

NextService == GetSignal

SpecService == InitService /\ [][NextService]_vars

\* ------------------------------------------------------------------------
\* StrategyService.compare_actual_vs_ai_trades: the AI side
\* ------------------------------------------------------------------------
\* The longest frame generate_signals hands to the comparison.
MaxAiBars == 7

\* The closes fetch_data can return for the comparison's frame.
AiCloses == {1, 2}

\* ai_position, ai_entry_price, ai_entry_time and ai_trades before the first
\* row; rows are numbered from 1, so 0 stands for the entry time None.
AiStart ==
    [ai_position |-> 0, ai_entry_price |-> 0, ai_entry_time |-> 0,
     ai_trades |-> << >>]

\* Enter position.
AiEnter(walk, row, idx) ==
    [walk EXCEPT !.ai_position = 1,
                 !.ai_entry_price = row.close,
                 !.ai_entry_time = idx]

\* The dict appended on an exit.
AiTrade(walk, row, idx) ==
    [entry_time |-> walk.ai_entry_time,
     exit_time |-> idx,
     entry_price |-> walk.ai_entry_price,
     exit_price |-> row.close,
     pnl |-> row.close - walk.ai_entry_price,
     \* (pnl / ai_entry_price) * 100 as numerator, denominator
     pnl_percentage |-> << (row.close - walk.ai_entry_price) * 100,
                           walk.ai_entry_price >>,
     is_winning |-> row.close - walk.ai_entry_price > 0]

\* Line 339 left out: the walk stays long after an exit.
AiResetStillLong(walk) ==
    [walk EXCEPT !.ai_entry_price = 0, !.ai_entry_time = 0]

\* ai_position = 0; ai_entry_price = 0; ai_entry_time = None
AiReset(walk) ==
    [walk EXCEPT !.ai_position = 0, !.ai_entry_price = 0, !.ai_entry_time = 0]

\* Exit position.
AiExit(walk, row, idx) ==
    AiReset([walk EXCEPT !.ai_trades = Append(@, AiTrade(walk, row, idx))])

\* The body of the loop over ai_data.iterrows() for one row.
AiRow(walk, row, idx) ==
    IF row.buy_signal = 1 /\ walk.ai_position = 0 THEN AiEnter(walk, row, idx)
    ELSE IF row.sell_signal = 1 /\ walk.ai_position = 1 THEN AiExit(walk, row, idx)
    ELSE walk

\* The walk's locals after the first k rows.
RECURSIVE AiWalk(_, _)
AiWalk(rows, k) ==
    IF k = 0 THEN AiStart ELSE AiRow(AiWalk(rows, k - 1), rows[k], k)

\* StrategyService._calculate_ai_trades
CalculateAiTrades(rows) == AiWalk(rows, Len(rows)).ai_trades

\* TrendlineBreakoutStrategy().generate_signals has fetched the frame and
\* initialised the signal columns.
InitCompare ==
    /\ trades = << >>
    /\ original = << >>
    /\ results = << >>
    /\ strategy = "compare"
    /\ df \in {<< CandleRow(c, NoSignals) >> : c \in AiCloses}
    /\ bar = NoBar
    /\ loc = InitialLocals
    /\ phase = "loop"
    /\ current_signal = "HOLD"
    /\ patterns = << >>
    /\ pattern_idx = 0
    /\ pattern_signals = {}
    /\ CompareIdle
    /\ AuthIdle

\* One iteration of the trendline loop on the comparison's frame.
AiSignalStep ==
    /\ strategy = "compare"
    /\ phase = "loop"
    /\ Len(df) < MaxAiBars
    /\ \E close \in AiCloses, b \in TrendlineBars(Len(df), bar, FALSE) :
         /\ FallsIfLevelBreak(df[Len(df)].close, close, b)
         /\ df' = Append(df, CandleRow(close,
                                TlIteration(CarriedPosition(df, Len(df)), b)))
         /\ bar' = b
    /\ UNCHANGED << strategy, loc, phase, current_signal,
                    patterns, pattern_idx, pattern_signals >>
    /\ UNCHANGED ledgerVars
    /\ UNCHANGED compareVars
    /\ UNCHANGED authVars

\* generate_signals returns the frame and _calculate_ai_trades walks it.
AiTradesStep ==
    /\ strategy = "compare"
    /\ phase = "loop"
    /\ phase' = "done"
    /\ ai_trades' = CalculateAiTrades(df)
    /\ UNCHANGED << strategy, df, bar, loc, current_signal,
                    patterns, pattern_idx, pattern_signals >>
    /\ UNCHANGED << actual_trades, comparison >>
    /\ UNCHANGED ledgerVars
    /\ UNCHANGED authVars

NextCompare == AiSignalStep \/ AiTradesStep

SpecCompare == InitCompare /\ [][NextCompare]_vars

\* ------------------------------------------------------------------------
\* Python floats (IEEE 754 binary64, round to nearest, ties to even)
\* ------------------------------------------------------------------------
\* The win rates are floats; a float below 2^7 is held exactly as three
\* limbs << a, b, c >> standing for (a * FloatBase^2 + b * FloatBase + c)
\* units of 2^-62.
FloatBase == 2^23

\* The integer k as a float.
FloatOfInt(k) == << k * 2^16, 0, 0 >>

\* Carries moved up so that the two lower limbs are below FloatBase.
Carried(v) ==
    LET c == v[3] % FloatBase
        b == v[2] + (v[3] \div FloatBase)
    IN  << v[1] + (b \div FloatBase), b % FloatBase, c >>

\* The number of bits of a natural number.
RECURSIVE BitLength(_)
BitLength(x) == IF x = 0 THEN 0 ELSE 1 + BitLength(x \div 2)

\* The number of bits of the whole value.
FloatBits(v) ==
    IF v[1] > 0 THEN 46 + BitLength(v[1])
    ELSE IF v[2] > 0 THEN 23 + BitLength(v[2])
    ELSE BitLength(v[3])

\* v, exact up to the lost part that inexact stands for, rounded to the 53
\* bits of a binary64 significand.
RoundToNearestEven(v, inexact) ==
    LET dropped == FloatBits(v) - 53
    IN  IF dropped <= 0 THEN v
        ELSE LET unit == 2^dropped
                 low == v[3] % unit
                 kept == v[3] - low
                 up == \/ 2 * low > unit
                       \/ 2 * low = unit /\ (inexact \/ (kept \div unit) % 2 = 1)
             IN  Carried(<< v[1], v[2], IF up THEN kept + unit ELSE kept >>)

\* x / y for two ints, 0 <= x <= y, 0 < y < 255.
TrueDivide(x, y) ==
    LET top == x * 2^16
        mid == (top % y) * FloatBase
        bottom == (mid % y) * FloatBase
    IN  RoundToNearestEven(<< top \div y, mid \div y, bottom \div y >>,
                           bottom % y # 0)

\* x * k for a float x and a small int k.
FloatTimes(x, k) ==
    RoundToNearestEven(Carried(<< x[1] * k, x[2] * k, x[3] * k >>), FALSE)

\* x + k for a float x and a small int k.
FloatPlus(x, k) ==
    RoundToNearestEven(Carried(<< x[1] + FloatOfInt(k)[1], x[2], x[3] >>), FALSE)

\* x > y
FloatGreater(x, y) ==
    \/ x[1] > y[1]
    \/ x[1] = y[1] /\ x[2] > y[2]
    \/ x[1] = y[1] /\ x[2] = y[2] /\ x[3] > y[3]

\* ------------------------------------------------------------------------
\* StrategyService._calculate_comparison_metrics
\* ------------------------------------------------------------------------
\* The most trades either side of a comparison has.
MaxCompared == 15

\* max(a, b)
Max(a, b) == IF a >= b THEN a ELSE b

\* An actual side with n completed trades of which the first w won; the last
\* of the others broke even.
ActualTrades(w, n) ==
    [k \in 1..n |-> [pnl |-> IF k <= w THEN 1 ELSE IF k = n THEN 0 ELSE -1]]

\* An AI side with n synthetic trades of which the first w won.
AiTrades(w, n) ==
    [k \in 1..n |-> [pnl |-> IF k <= w THEN 1 ELSE -1, is_winning |-> k <= w]]

\* len([t for t in actual_trades if t.get('pnl', 0) > 0])
ActualWinningTrades(list) == Cardinality({k \in 1..Len(list) : list[k].pnl > 0})

\* len([t for t in ai_trades if t['is_winning']])
AiWinningTrades(list) == Cardinality({k \in 1..Len(list) : list[k].is_winning})

\* winning / max(total, 1) * 100
WinRate(winning, total) == FloatTimes(TrueDivide(winning, Max(total, 1)), 100)

\* performance_comparison
PerformanceComparison(ai_win_rate, actual_win_rate) ==
    IF FloatGreater(ai_win_rate, FloatPlus(actual_win_rate, 5))
    THEN "AI performs better"
    ELSE IF FloatGreater(actual_win_rate, FloatPlus(ai_win_rate, 5))
    THEN "Your trading performs better"
    ELSE "Similar"

\* The part of the returned dict that depends on the trades.
ComparisonMetrics(actual, ai) ==
    LET actual_win_rate == WinRate(ActualWinningTrades(actual), Len(actual))
        ai_win_rate == WinRate(AiWinningTrades(ai), Len(ai))
    IN  [actual_trading |->
             [total_trades |-> Len(actual),
              win_rate |-> actual_win_rate,
              winning_trades |-> ActualWinningTrades(actual),
              losing_trades |-> Len(actual) - ActualWinningTrades(actual)],
         ai_predictions |->
             [total_trades |-> Len(ai),
              win_rate |-> ai_win_rate,
              winning_trades |-> AiWinningTrades(ai),
              losing_trades |-> Len(ai) - AiWinningTrades(ai)],
         performance_comparison |->
             PerformanceComparison(ai_win_rate, actual_win_rate)]

\* Both sides' trades are at hand.
InitMetrics ==
    /\ trades = << >>
    /\ original = << >>
    /\ results = << >>
    /\ SignalsIdle
    /\ \E n \in 0..MaxCompared : \E w \in 0..n : actual_trades = ActualTrades(w, n)
    /\ \E n \in 0..MaxCompared : \E w \in 0..n : ai_trades = AiTrades(w, n)
    /\ comparison = [performance_comparison |-> "none"]
    /\ AuthIdle

\* _calculate_comparison_metrics returns.
CalculateComparisonMetrics ==
    /\ comparison.performance_comparison = "none"
    /\ comparison' = ComparisonMetrics(actual_trades, ai_trades)
    /\ UNCHANGED << actual_trades, ai_trades >>
    /\ UNCHANGED signalVars
    /\ UNCHANGED ledgerVars
    /\ UNCHANGED authVars

NextMetrics == CalculateComparisonMetrics

SpecMetrics == InitMetrics /\ [][NextMetrics]_vars

\* ------------------------------------------------------------------------
\* The legacy ledger: calculate_pnl_from_trades in app.py
\* ------------------------------------------------------------------------
\* The longest list the legacy ledger loads.
MaxLegacyTrades == 3

\* The records the legacy ledger reads: it takes the size of a trade from
\* the quantity key.
LegacyTrade ==
    [symbol : {"BTC"}, side : Sides, quantity : Amounts,
     price : Prices, timestamp : Timestamps]
    \cup
    {[symbol |-> "ETH", side |-> "buy", quantity |-> 1, price |-> 1, timestamp |-> 0],
     [symbol |-> "ETH", side |-> "sell", quantity |-> 1, price |-> 1, timestamp |-> 1]}

RECURSIVE LegacySymbolKeys(_, _, _)
\* Keys of trades_by_symbol in dict (insertion) order; every trade adds its
\* symbol.
LegacySymbolKeys(list, k, keys) ==
    IF k > Len(list) THEN keys
    ELSE IF list[k].symbol \notin Range(keys)
         THEN LegacySymbolKeys(list, k + 1, Append(keys, list[k].symbol))
         ELSE LegacySymbolKeys(list, k + 1, keys)

RECURSIVE LegacyBucket(_, _, _, _)
\* trades_by_symbol[symbol]['buys' | 'sells']: positions in input order.
LegacyBucket(list, symbol, side, k) ==
    IF k > Len(list) THEN << >>
    ELSE IF list[k].symbol = symbol /\ Lower(list[k].side) = side
         THEN << k >> \o LegacyBucket(list, symbol, side, k + 1)
         ELSE LegacyBucket(list, symbol, side, k + 1)

\* [dict(b) for b in sorted(bucket, key=timestamp)]: copies, oldest first.
RemainingCopies(list, symbol, side) ==
    LET refs == SortedByTimestamp(list, LegacyBucket(list, symbol, side, 1))
    IN  [k \in 1..Len(refs) |-> list[refs[k]]]

\* The completed_trade dict; prices and quantities are whole numbers here,
\* which round(x, 2) leaves as they are.
LegacyCompletedTrade(symbol, buy, sell, matched_qty) ==
    [symbol |-> symbol,
     buy_price |-> buy.price,
     sell_price |-> sell.price,
     quantity |-> matched_qty,
     buy_timestamp |-> buy.timestamp,
     sell_timestamp |-> sell.timestamp,
     pnl |-> (sell.price - buy.price) * matched_qty,
     pnl_percentage |-> << (sell.price - buy.price) * 100, buy.price >>]

RECURSIVE LegacyMatch(_, _, _, _, _, _)
\* The while loop over remaining_buys and remaining_sells: the oldest buy
\* left is paired with the oldest sell left; no timestamp is compared.
LegacyMatch(symbol, remaining_buys, remaining_sells, buy_idx, sell_idx, completed) ==
    IF ~(buy_idx <= Len(remaining_buys) /\ sell_idx <= Len(remaining_sells))
    THEN completed
    ELSE LET buy == remaining_buys[buy_idx]
             sell == remaining_sells[sell_idx]
             matched_qty == Min(buy.quantity, sell.quantity)
             left_buys == [remaining_buys EXCEPT
                              ![buy_idx].quantity = buy.quantity - matched_qty]
             left_sells == [remaining_sells EXCEPT
                              ![sell_idx].quantity = sell.quantity - matched_qty]
         IN  IF buy.quantity <= 0
             THEN LegacyMatch(symbol, remaining_buys, remaining_sells,
                              buy_idx + 1, sell_idx, completed)
             ELSE IF sell.quantity <= 0
             THEN LegacyMatch(symbol, remaining_buys, remaining_sells,
                              buy_idx, sell_idx + 1, completed)
             ELSE LegacyMatch(
                      symbol, left_buys, left_sells,
                      IF left_buys[buy_idx].quantity <= 0
                          THEN buy_idx + 1 ELSE buy_idx,
                      IF left_sells[sell_idx].quantity <= 0
                          THEN sell_idx + 1 ELSE sell_idx,
                      IF buy.price > 0 /\ sell.price > 0 /\ matched_qty > 0
                          THEN Append(completed,
                                      LegacyCompletedTrade(symbol, buy, sell,
                                                           matched_qty))
                          ELSE completed)

RECURSIVE LegacyMatchSymbols(_, _, _)
\* The loop over trades_by_symbol.items().
LegacyMatchSymbols(list, keys, completed) ==
    IF keys = << >> THEN completed
    ELSE LegacyMatchSymbols(
             list, Tail(keys),
             LegacyMatch(keys[1],
                         RemainingCopies(list, keys[1], "buy"),
                         RemainingCopies(list, keys[1], "sell"),
                         1, 1, completed))

RECURSIVE InsertNewestFirst(_, _)
\* Insert x behind every trade whose sell_timestamp is >= its own.
InsertNewestFirst(sorted, x) ==
    IF sorted = << >> THEN << x >>
    ELSE IF sorted[1].sell_timestamp >= x.sell_timestamp
         THEN << sorted[1] >> \o InsertNewestFirst(Tail(sorted), x)
         ELSE << x >> \o sorted

RECURSIVE NewestFirst(_)
\* completed_trades.sort(key=sell_timestamp, reverse=True): stable.
NewestFirst(completed) ==
    IF completed = << >> THEN << >>
    ELSE InsertNewestFirst(NewestFirst(SubSeq(completed, 1, Len(completed) - 1)),
                           completed[Len(completed)])

\* The returned dict: the trades and the counts of the summary.
LegacyCalculatePnlFromTrades(list) ==
    LET completed ==
            NewestFirst(LegacyMatchSymbols(list, LegacySymbolKeys(list, 1, << >>),
                                           << >>))
    IN  [success |-> TRUE,
         summary |->
             [total_pnl |-> SumPnl(completed),
              total_trades |-> Len(completed),
              winning_trades |->
                  Cardinality({k \in 1..Len(completed) : completed[k].pnl > 0}),
              losing_trades |->
                  Cardinality({k \in 1..Len(completed) : completed[k].pnl < 0})],
         trades |-> completed]

\* simulated_trades.json holds a list of legacy records.
InitLegacy ==
    /\ trades \in SeqsUpTo(LegacyTrade, MaxLegacyTrades)
    /\ original = trades
    /\ results = << >>
    /\ SignalsIdle
    /\ CompareIdle
    /\ AuthIdle

\* One call of the legacy calculate_pnl_from_trades.
LegacyCalculatePnl ==
    /\ results = << >>
    /\ results' = << LegacyCalculatePnlFromTrades(trades) >>
    /\ UNCHANGED << trades, original >>
    /\ UNCHANGED signalVars
    /\ UNCHANGED compareVars
    /\ UNCHANGED authVars

NextLegacy == LegacyCalculatePnl

SpecLegacy == InitLegacy /\ [][NextLegacy]_vars

\* ------------------------------------------------------------------------
\* ContinuationPatternsStrategy.generate_signals: the position pass
\* ------------------------------------------------------------------------
\* The longest frame of the continuation strategy.
MaxCpBars == 4

\* The low and high of a candle, low <= high.
CpCandles == {<< 1, 1 >>, << 1, 2 >>, << 2, 2 >>, << 2, 3 >>, << 3, 3 >>, << 1, 3 >>}

\* Bar i after the signal pass: stop_loss and take_profit are initialised to
\* 0.0 and written only on a bar that gets a signal, below and above the
\* candles for a long signal and the other way round for a short one.
CpRows(i) ==
    {[signal |-> sig, low |-> c[1], high |-> c[2],
      stop_loss |-> (IF sig = 1 THEN 1 ELSE IF sig = -1 THEN 3 ELSE 0),
      take_profit |-> (IF sig = 1 THEN 3 ELSE IF sig = -1 THEN 1 ELSE 0)]
        : sig \in (IF i = 0 THEN {0} ELSE {-1, 0, 1}), c \in CpCandles}

\* One iteration of the position pass: the new value of position.  The
\* levels compared are those of the row itself.
CpPosition(position, row) ==
    IF row.signal = 1 /\ position <= 0 THEN 1
    ELSE IF row.signal = -1 /\ position >= 0 THEN -1
    ELSE IF position = 1
    THEN (IF row.low <= row.stop_loss \/ row.high >= row.take_profit
          THEN 0 ELSE position)
    ELSE IF position = -1
    THEN (IF row.high >= row.stop_loss \/ row.low <= row.take_profit
          THEN 0 ELSE position)
    ELSE position

\* The signal pass is over and the position pass starts.
InitContinuation ==
    /\ trades = << >>
    /\ original = << >>
    /\ results = << >>
    /\ strategy = "cp"
    /\ df = << >>
    /\ bar = NoBar
    /\ loc = InitialLocals
    /\ phase = "positions"
    /\ current_signal = "HOLD"
    /\ patterns = << >>
    /\ pattern_idx = 0
    /\ pattern_signals = {}
    /\ CompareIdle
    /\ AuthIdle

\* One iteration of the position pass on bar i = Len(df).
CpStep ==
    /\ strategy = "cp"
    /\ phase = "positions"
    /\ Len(df) < MaxCpBars
    /\ \E row \in CpRows(Len(df)) :
         LET position == CpPosition(loc.current_position, row)
         IN  /\ df' = Append(df, [signal |-> row.signal,
                                  low |-> row.low, high |-> row.high,
                                  stop_loss |-> row.stop_loss,
                                  take_profit |-> row.take_profit,
                                  position |-> position])
             /\ loc' = [loc EXCEPT !.current_position = position]
    /\ UNCHANGED << strategy, bar, phase, current_signal,
                    patterns, pattern_idx, pattern_signals >>
    /\ UNCHANGED ledgerVars
    /\ UNCHANGED compareVars
    /\ UNCHANGED authVars

\* generate_signals returns the frame.
CpReturn ==
    /\ strategy = "cp"
    /\ phase = "positions"
    /\ phase' = "done"
    /\ UNCHANGED << strategy, df, bar, loc, current_signal,
                    patterns, pattern_idx, pattern_signals >>
    /\ UNCHANGED ledgerVars
    /\ UNCHANGED compareVars
    /\ UNCHANGED authVars

NextContinuation == CpStep \/ CpReturn

SpecContinuation == InitContinuation /\ [][NextContinuation]_vars

\* ------------------------------------------------------------------------
\* rw_extremes and detect_local_level_breaks
\* ------------------------------------------------------------------------
\* rolling_window_order and the longest series the extremes are taken from.
RwOrder == 1
MaxSeries == 6

\* The closes of the series.
SeriesValues == {1, 2, 3}

\* rw_top(data, curr_index, order); indices count from 0.
RwTop(data, curr_index, order) ==
    IF curr_index < order * 2 + 1 \/ curr_index >= Len(data) THEN FALSE
    ELSE LET k == curr_index - order
         IN  \A i \in 1..order :
                 /\ ~(k + i >= Len(data) \/ k - i < 0)
                 /\ ~(At(data, k + i) > At(data, k) \/ At(data, k - i) > At(data, k))

\* rw_bottom(data, curr_index, order)
RwBottom(data, curr_index, order) ==
    IF curr_index < order * 2 + 1 \/ curr_index >= Len(data) THEN FALSE
    ELSE LET k == curr_index - order
         IN  \A i \in 1..order :
                 /\ ~(k + i >= Len(data) \/ k - i < 0)
                 /\ ~(At(data, k + i) < At(data, k) \/ At(data, k - i) < At(data, k))

\* [i, extreme_index, data[extreme_index]]
Extreme(data, i, order) == << i, i - order, At(data, i - order) >>

RECURSIVE ExtremesFrom(_, _, _, _)
\* The loop of rw_extremes from index i on: the tops or the bottoms.
ExtremesFrom(data, i, order, tops) ==
    IF i >= Len(data) THEN << >>
    ELSE (IF (IF tops THEN RwTop(data, i, order) ELSE RwBottom(data, i, order))
          THEN << Extreme(data, i, order) >> ELSE << >>)
         \o ExtremesFrom(data, i + 1, order, tops)

\* rw_extremes(data, order)
RwExtremes(data, order) ==
    IF Len(data) < order * 2 + 2
    THEN [tops |-> << >>, bottoms |-> << >>]
    ELSE [tops |-> ExtremesFrom(data, 0, order, TRUE),
          bottoms |-> ExtremesFrom(data, 0, order, FALSE)]

\* max(extremes, key=lambda x: x[1])[1], -1 for an empty list.
MostRecentIdx(extremes) ==
    IF extremes = << >> THEN -1
    ELSE CHOOSE m \in {extremes[j][2] : j \in 1..Len(extremes)} :
             \A j \in 1..Len(extremes) : extremes[j][2] <= m

\* top_levels / bottom_levels: the levels of all extremes but the most
\* recent one.
ValidLevels(data, extremes) ==
    {extremes[j][3] : j \in {n \in 1..Len(extremes) :
                               /\ extremes[n][2] < Len(data)
                               /\ extremes[n][2] # MostRecentIdx(extremes)}}

\* previous_price >= level and current_price < level
CrossesBelow(data, i, level) == At(data, i - 1) >= level /\ At(data, i) < level

\* detect_local_level_breaks(data, tops, bottoms)
DetectLocalLevelBreaks(data, tops, bottoms) ==
    IF Len(data) < 2 \/ (Len(tops) <= 1 /\ Len(bottoms) <= 1)
    THEN [i \in 1..Len(data) |-> 0]
    ELSE [i \in 1..Len(data) |->
            IF /\ i > 1
               /\ \E level \in ValidLevels(data, tops) \cup ValidLevels(data, bottoms) :
                      CrossesBelow(data, i - 1, level)
            THEN -1 ELSE 0]

\* The closes are fetched.
InitExtremes ==
    /\ trades = << >>
    /\ original = << >>
    /\ results = << >>
    /\ strategy = "extremes"
    /\ \E n \in 1..MaxSeries :
         df \in [1..n -> [close : SeriesValues, level_breaks : {0}]]
    /\ bar = NoBar
    /\ loc = InitialLocals
    /\ phase = "extremes"
    /\ current_signal = "HOLD"
    /\ patterns = [tops |-> << >>, bottoms |-> << >>]
    /\ pattern_idx = 0
    /\ pattern_signals = {}
    /\ CompareIdle
    /\ AuthIdle

\* tops, bottoms = self.rw_extremes(close, self.rolling_window_order)
RwExtremesStep ==
    /\ strategy = "extremes"
    /\ phase = "extremes"
    /\ phase' = "levels"
    /\ patterns' = RwExtremes(CloseColumn(df), RwOrder)
    /\ UNCHANGED << strategy, df, bar, loc, current_signal,
                    pattern_idx, pattern_signals >>
    /\ UNCHANGED ledgerVars
    /\ UNCHANGED compareVars
    /\ UNCHANGED authVars

\* data['level_breaks'] = self.detect_local_level_breaks(close, tops, bottoms)
LevelBreaksStep ==
    /\ strategy = "extremes"
    /\ phase = "levels"
    /\ phase' = "done"
    /\ df' = [i \in 1..Len(df) |->
                [df[i] EXCEPT !.level_breaks =
                    DetectLocalLevelBreaks(CloseColumn(df), patterns.tops,
                                           patterns.bottoms)[i]]]
    /\ UNCHANGED << strategy, bar, loc, current_signal,
                    patterns, pattern_idx, pattern_signals >>
    /\ UNCHANGED ledgerVars
    /\ UNCHANGED compareVars
    /\ UNCHANGED authVars

NextExtremes == RwExtremesStep \/ LevelBreaksStep

SpecExtremes == InitExtremes /\ [][NextExtremes]_vars

\* ------------------------------------------------------------------------
\* ReversalPatternsStrategy.generate_signals on a frame longer than the
\* breakout search
\* ------------------------------------------------------------------------
\* The bars between the warm-up of the volume average and the last RevBars
\* bars; they close on the neckline and so never break it.
QuietBars == 10

QuietRow == ReversalRow(2, 100)

LongFrameLen == VolumeMaPeriod - 1 + QuietBars + RevBars

\* Patterns that end BreakoutSearchBars bars, or one more, before the end
\* of the frame.
EarlyPattern ==
    [end_idx : (LongFrameLen - BreakoutSearchBars - 2) ..
                   (LongFrameLen - BreakoutSearchBars - 1),
     direction : {"bearish", "bullish"},
     neckline_price : Necklines]

InitReversalLong ==
    /\ trades = << >>
    /\ original = << >>
    /\ results = << >>
    /\ strategy = "rev"
    /\ df \in {[k \in 1..(VolumeMaPeriod - 1) |-> WarmUpRow]
                 \o [k \in 1..QuietBars |-> QuietRow] \o tail :
                 tail \in [1..RevBars ->
                             {ReversalRow(c, v) : c \in RevCloses, v \in RevVolumes}]}
    /\ bar = NoBar
    /\ loc = InitialLocals
    /\ phase = "patterns"
    /\ current_signal = "HOLD"
    /\ patterns \in SeqsUpTo(EarlyPattern, MaxPatterns)
    /\ pattern_idx = 0
    /\ pattern_signals = {}
    /\ CompareIdle
    /\ AuthIdle

SpecReversalLong == InitReversalLong /\ [][NextReversal]_vars

\* ------------------------------------------------------------------------
\* VolumeSpikeStrategy.generate_signals over one long position
\* ------------------------------------------------------------------------
\* The longest frame: room for an entry on the first bar of the loop, the
\* whole holding period and the bars just after it.
HoldFrameLen == VolumePeriod + MaxHoldPeriods + 3

\* Candles <<open, close>> with their volume.  Before the entry the market
\* is quiet until a bullish spike; while the position is open a candle is
\* calm (inside the stop-loss and take-profit levels of an entry at 106),
\* reaches the take-profit, falls to the stop-loss or is a bearish bar on
\* high volume; after the exit the market is quiet again.
QuietCandle == << FlatPair, 1 >>

EntryCandle == << << 100, 106 >>, 5 >>

HoldingCandles ==
    {<< << 106, 106 >>, 1 >>, << << 106, 112 >>, 1 >>,
     << << 106, 100 >>, 1 >>, << << 100, 96 >>, 5 >>}

HoldCandles(rows, locals) ==
    IF locals.current_position = 1 THEN HoldingCandles
    ELSE IF \E k \in 1..Len(rows) : rows[k].sell_signal = 1 THEN {QuietCandle}
    ELSE {QuietCandle, EntryCandle}

InitHold ==
    /\ trades = << >>
    /\ original = << >>
    /\ results = << >>
    /\ strategy = "vs"
    /\ df = [k \in 1..VolumePeriod |-> VolumeRow(FlatPair, 1, NoSignals)]
    /\ bar = NoBar
    /\ loc = InitialLocals
    /\ phase = "loop"
    /\ current_signal = "HOLD"
    /\ patterns = << >>
    /\ pattern_idx = 0
    /\ pattern_signals = {}
    /\ CompareIdle
    /\ AuthIdle

\* One iteration of the volume-spike loop on the next candle.
VsHoldStep ==
    /\ strategy = "vs"
    /\ phase = "loop"
    /\ Len(df) < HoldFrameLen
    /\ \E candle \in HoldCandles(df, loc) :
         LET out == VsIteration(Append(df, VolumeRow(candle[1], candle[2], NoSignals)),
                                Len(df), loc)
         IN  /\ df' = Append(df, VolumeRow(candle[1], candle[2], out))
             /\ loc' = out.locals
    /\ UNCHANGED << strategy, bar, phase, current_signal,
                    patterns, pattern_idx, pattern_signals >>
    /\ UNCHANGED ledgerVars
    /\ UNCHANGED compareVars
    /\ UNCHANGED authVars

NextHold == VsHoldStep \/ Finish

SpecHold == InitHold /\ [][NextHold]_vars

\* ------------------------------------------------------------------------
\* simulate_trades.py: generate_simulated_trades and main, and the ledger
\* reading the file it writes
\* ------------------------------------------------------------------------
\* The longest candle list, and the closes a candle takes: each step
\* between two different closes is a move of more than 1 %.
MaxSimCandles == 5

SimCloses == {98, 100, 102}

\* quantity, in units of 0.01 BTC.
SimQuantity == 1

\* price_change_pct < -1.0 and > 1.0, times previous_close.
DropsOverOnePct(previous_close, current_close) ==
    100 * (current_close - previous_close) < -previous_close

RisesOverOnePct(previous_close, current_close) ==
    100 * (current_close - previous_close) > previous_close

\* The trade dict of lines 99-108 and 114-123 (datetime and
\* price_change_pct, which nothing reads back, are left out).
SimTrade(trade_id, timestamp, side, price) ==
    [trade_id |-> trade_id, timestamp |-> timestamp, side |-> side,
     price |-> price, quantity |-> SimQuantity, value |-> price * SimQuantity]

\* One iteration of the loop over candles[1:]: the trades list and the
\* locals after candle i, whose timestamp is i.
SimIteration(list, locals, previous_close, current_close, i) ==
    IF DropsOverOnePct(previous_close, current_close)
    THEN [trades |-> Append(list, SimTrade(locals.trade_id, i, "buy", current_close)),
          locals |-> [position |-> locals.position + SimQuantity,
                      trade_id |-> locals.trade_id + 1]]
    ELSE IF RisesOverOnePct(previous_close, current_close)
            /\ locals.position >= SimQuantity
    THEN [trades |-> Append(list, SimTrade(locals.trade_id, i, "sell", current_close)),
          locals |-> [position |-> locals.position - SimQuantity,
                      trade_id |-> locals.trade_id + 1]]
    ELSE [trades |-> list, locals |-> locals]

\* dict.get(key, default)
Get(record, key, default) ==
    IF key \in DOMAIN record THEN record[key] ELSE default

\* A record of the file as _match_trades_fifo reads it: 'symbol' in trade,
\* and get() with its defaults for side, amount, price and timestamp.
AsRead(record) ==
    [symbol |-> Get(record, "symbol", Missing),
     side |-> Get(record, "side", ""),
     amount |-> Get(record, "amount", 0),
     price |-> Get(record, "price", 0),
     timestamp |-> Get(record, "timestamp", 0)]

\* _load_trades_from_file on the file main wrote, then
\* calculate_pnl_from_trades.
PnlOfFile(list) ==
    CalculatePnlFromTrades([k \in 1..Len(list) |-> AsRead(list[k])])

\* The first candle is fetched; trades = [], trade_id = 1, position = 0.
InitSimulate ==
    /\ trades = << >>
    /\ original = << >>
    /\ results = << >>
    /\ strategy = "simulate"
    /\ df \in {<< [close |-> c] >> : c \in SimCloses}
    /\ bar = NoBar
    /\ loc = [position |-> 0, trade_id |-> 1]
    /\ phase = "loop"
    /\ current_signal = "HOLD"
    /\ patterns = << >>
    /\ pattern_idx = 0
    /\ pattern_signals = {}
    /\ CompareIdle
    /\ AuthIdle

\* One iteration of generate_simulated_trades on the next candle.
SimStep ==
    /\ strategy = "simulate"
    /\ phase = "loop"
    /\ Len(df) < MaxSimCandles
    /\ \E close \in SimCloses :
         LET out == SimIteration(trades, loc, df[Len(df)].close, close, Len(df))
         IN  /\ df' = Append(df, [close |-> close])
             /\ trades' = out.trades
             /\ loc' = out.locals
    /\ UNCHANGED << original, results, strategy, bar, phase, current_signal,
                    patterns, pattern_idx, pattern_signals >>
    /\ UNCHANGED compareVars
    /\ UNCHANGED authVars

\* main writes the trades to simulated_trades.json.
SimSave ==
    /\ strategy = "simulate"
    /\ phase = "loop"
    /\ original' = trades
    /\ phase' = "saved"
    /\ UNCHANGED << trades, results, strategy, df, bar, loc, current_signal,
                    patterns, pattern_idx, pattern_signals >>
    /\ UNCHANGED compareVars
    /\ UNCHANGED authVars

\* TradingService loads the file and computes the P&L.
SimCalculatePnl ==
    /\ strategy = "simulate"
    /\ phase = "saved"
    /\ results' = << PnlOfFile(original) >>
    /\ phase' = "done"
    /\ UNCHANGED << trades, original, strategy, df, bar, loc, current_signal,
                    patterns, pattern_idx, pattern_signals >>
    /\ UNCHANGED compareVars
    /\ UNCHANGED authVars

NextSimulate == SimStep \/ SimSave \/ SimCalculatePnl

SpecSimulate == InitSimulate /\ [][NextSimulate]_vars

\* ------------------------------------------------------------------------
\* Token revocation: init_jwt, revoke_token and the two logout handlers
\* ------------------------------------------------------------------------
\* The most requests served, and the jti of the tokens issued.
MaxRequests == 4

Jtis == {"jti-1", "jti-2"}

\* The keys of app.config the source sets; no line sets 'blacklisted_tokens'.
AppConfig ==
    [JWT_ACCESS_TOKEN_EXPIRES |-> "1h", JWT_REFRESH_TOKEN_EXPIRES |-> "30d",
     JWT_BLACKLIST_ENABLED |-> TRUE,
     JWT_BLACKLIST_TOKEN_CHECKS |-> << "access", "refresh" >>]

\* check_if_token_revoked, the callback init_jwt registers; it reads the set
\* init_jwt created.
CheckIfTokenRevoked(jti) == jti \in blacklisted_tokens

\* auth_required: verify_jwt_in_request passes for a token that is not
\* revoked (the tokens are well formed and not expired).
AuthRequired(jti) == ~CheckIfTokenRevoked(jti)

\* revoke_token(jti, blacklisted_tokens): the set after the add.
RevokeToken(jti, token_set) == token_set \cup {jti}

\* The set object a logout handler passes to revoke_token: "init_jwt" is the
\* set init_jwt returned, "new" is a set() built by the call itself.
AppBlacklist == "init_jwt"

BlueprintBlacklist == Get(AppConfig, "blacklisted_tokens", "new")

\* The set of init_jwt after revoke_token has added jti to the object passed.
AfterRevoke(object, jti) ==
    IF object = "init_jwt" THEN RevokeToken(jti, blacklisted_tokens)
    ELSE blacklisted_tokens

Served(endpoint, jti, status) ==
    [endpoint |-> endpoint, jti |-> jti, status |-> status]

InitAuth ==
    /\ trades = << >>
    /\ original = << >>
    /\ results = << >>
    /\ SignalsIdle
    /\ CompareIdle
    /\ AuthIdle

\* POST /api/auth/logout served by app.py's logout.
AppLogout ==
    /\ Len(requests) < MaxRequests
    /\ \E jti \in Jtis :
         IF AuthRequired(jti)
         THEN /\ blacklisted_tokens' = AfterRevoke(AppBlacklist, jti)
              /\ requests' = Append(requests, Served("app.logout", jti, 200))
         ELSE /\ requests' = Append(requests, Served("app.logout", jti, 401))
              /\ UNCHANGED blacklisted_tokens
    /\ UNCHANGED ledgerVars
    /\ UNCHANGED signalVars
    /\ UNCHANGED compareVars

\* POST /logout of the auth blueprint.
BlueprintLogout ==
    /\ Len(requests) < MaxRequests
    /\ \E jti \in Jtis :
         IF AuthRequired(jti)
         THEN /\ blacklisted_tokens' = AfterRevoke(BlueprintBlacklist, jti)
              /\ requests' = Append(requests, Served("auth.logout", jti, 200))
         ELSE /\ requests' = Append(requests, Served("auth.logout", jti, 401))
              /\ UNCHANGED blacklisted_tokens
    /\ UNCHANGED ledgerVars
    /\ UNCHANGED signalVars
    /\ UNCHANGED compareVars

\* Any other request to an endpoint behind auth_required.
ProtectedRequest ==
    /\ Len(requests) < MaxRequests
    /\ \E jti \in Jtis :
         requests' = Append(requests,
                            Served("profile", jti,
                                   IF AuthRequired(jti) THEN 200 ELSE 401))
    /\ UNCHANGED blacklisted_tokens
    /\ UNCHANGED ledgerVars
    /\ UNCHANGED signalVars
    /\ UNCHANGED compareVars

NextAuth == AppLogout \/ BlueprintLogout \/ ProtectedRequest

SpecAuth == InitAuth /\ [][NextAuth]_vars

\* ------------------------------------------------------------------------
\* Ledger properties
\* ------------------------------------------------------------------------

RECURSIVE SumAmount(_)
SumAmount(ts) == IF ts = << >> THEN 0 ELSE ts[1].amount + SumAmount(Tail(ts))

\* The input trades of one symbol and side, in input order.
TradesOf(list, sym, side) ==
    SelectSeq(list, LAMBDA t : t.symbol = sym /\ t.side = side)

\* The input trades of one symbol, in input order.
TradesOfSymbol(list, sym) == SelectSeq(list, LAMBDA t : t.symbol = sym)

\* The CompletedTrades of one symbol in a response, in output order.
CompletedOf(r, sym) == SelectSeq(r.trades, LAMBDA t : t.symbol = sym)

BuySum(sym) == SumAmount(TradesOf(original, sym, "buy"))
SellSum(sym) == SumAmount(TradesOf(original, sym, "sell"))

\* Bought strictly before time t, and sold up to and including time t.
BoughtBefore(sym, t) ==
    SumAmount(SelectSeq(original,
        LAMBDA x : x.symbol = sym /\ x.side = "buy" /\ x.timestamp < t))
SoldUpTo(sym, t) ==
    SumAmount(SelectSeq(original,
        LAMBDA x : x.symbol = sym /\ x.side = "sell" /\ x.timestamp <= t))

\* Balanced, and every sell preceded in time by enough bought quantity.
FullyMatchable(sym) ==
    /\ BuySum(sym) = SellSum(sym)
    /\ \A t \in Timestamps : SoldUpTo(sym, t) <= BoughtBefore(sym, t)

\* C1: for every symbol the matched amounts of its CompletedTrades sum to
\* at most the symbol's buy amounts and at most its sell amounts, with
\* equality of the three sums when the symbol is balanced and every sell is
\* preceded in time by enough bought quantity.
C1_Conservation ==
    \A k \in 1..Len(results) : \A sym \in Symbols :
        LET matched == SumAmount(CompletedOf(results[k], sym))
        IN /\ matched <= BuySum(sym)
           /\ matched <= SellSum(sym)
           /\ FullyMatchable(sym) => matched = BuySum(sym) /\ matched = SellSum(sym)

\* C1 witness: BTC is balanced and fully matched, ETH has an unmatched sell.
C1_Witness ==
    /\ Len(results) >= 1
    /\ FullyMatchable("BTC")
    /\ BuySum("BTC") = 2
    /\ SumAmount(CompletedOf(results[1], "BTC")) = 2
    /\ SumAmount(CompletedOf(results[1], "ETH")) < SellSum("ETH")

\* n copies of x.
Copies(n, x) == IF n <= 0 THEN << >> ELSE [k \in 1..n |-> x]

RECURSIVE BuyUnits(_)
\* One <<price, timestamp>> per unit bought, lot after lot.
BuyUnits(buys) ==
    IF buys = << >> THEN << >>
    ELSE Copies(buys[1].amount, << buys[1].price, buys[1].timestamp >>)
             \o BuyUnits(Tail(buys))

RECURSIVE MatchedBuyUnits(_)
\* One <<buy_price, buy_timestamp>> per unit matched, trade after trade.
MatchedBuyUnits(completed) ==
    IF completed = << >> THEN << >>
    ELSE Copies(completed[1].amount,
                << completed[1].buy_price, completed[1].buy_timestamp >>)
             \o MatchedBuyUnits(Tail(completed))

IsPrefix(s, t) == Len(s) <= Len(t) /\ s = SubSeq(t, 1, Len(s))

\* The list in ascending time, equal timestamps in their order in the list.
InTimeOrder(list) ==
    LET n == Len(list)
    IN Permuted(list,
         CHOOSE p \in ListOrders(n) :
            \A a, b \in 1..n :
               a < b => \/ list[p[a]].timestamp < list[p[b]].timestamp
                        \/ /\ list[p[a]].timestamp = list[p[b]].timestamp
                           /\ p[a] < p[b])

\* One buy of 2 at time 0 followed by two sells of 1 at time 1 (the spec's
\* 1.0 / 0.4 / 0.6 example in model units).
PartialLotScenario ==
    /\ Len(original) = 3
    /\ original[1].side = "buy" /\ original[1].amount = 2
    /\ original[1].timestamp = 0
    /\ \A k \in {2, 3} :
          /\ original[k].side = "sell" /\ original[k].amount = 1
          /\ original[k].timestamp = 1
          /\ original[k].symbol = original[1].symbol

NoSameSideTies(list) ==
    \A a, b \in 1..Len(list) :
        (a # b /\ list[a].symbol = list[b].symbol /\ list[a].side = list[b].side)
            => list[a].timestamp # list[b].timestamp

\* Two responses hold the same CompletedTrades symbol by symbol.
SamePerSymbol(r1, r2) ==
    \A sym \in Symbols : CompletedOf(r1, sym) = CompletedOf(r2, sym)

C4_Idempotent ==
    /\ Len(results) >= 1 => trades = original
    /\ \A j, k \in 1..Len(results) : results[j] = results[k]

\* C4 witness: two runs over a list whose lot was matched in two parts.
C4_Witness ==
    /\ Len(results) = 2
    /\ Len(results[2].trades) >= 2

\* All trades of a symbol in processing order: ascending time, at equal
\* time buys before sells, otherwise input order.
InLedgerOrder(list) ==
    LET n == Len(list)
    IN Permuted(list,
         CHOOSE p \in ListOrders(n) :
            \A a, b \in 1..n :
               a < b => \/ list[p[a]].timestamp < list[p[b]].timestamp
                        \/ /\ list[p[a]].timestamp = list[p[b]].timestamp
                           /\ \/ list[p[a]].side = "buy" /\ list[p[b]].side = "sell"
                              \/ list[p[a]].side = list[p[b]].side /\ p[a] < p[b])

RECURSIVE UnitMatches(_, _)
\* Unit-by-unit FIFO: every unit sold takes the oldest unit still open, and
\* a unit sold while nothing is open is dropped.
UnitMatches(list, open) ==
    IF list = << >> THEN << >>
    ELSE LET t == list[1]
         IN IF t.side = "buy"
            THEN UnitMatches(Tail(list),
                             open \o Copies(t.amount, << t.price, t.timestamp >>))
            ELSE LET n == Min(t.amount, Len(open))
                 IN [k \in 1..n |->
                        << open[k][1], open[k][2], t.price, t.timestamp >>]
                    \o UnitMatches(Tail(list), SubSeq(open, n + 1, Len(open)))

RECURSIVE MatchedUnits(_)
\* One <<buy_price, buy_timestamp, sell_price, sell_timestamp>> per unit.
MatchedUnits(completed) ==
    IF completed = << >> THEN << >>
    ELSE Copies(completed[1].amount,
                << completed[1].buy_price, completed[1].buy_timestamp,
                   completed[1].sell_price, completed[1].sell_timestamp >>)
             \o MatchedUnits(Tail(completed))

\* C5: a sell that meets an empty queue, or exceeds what is queued, yields
\* CompletedTrades for the matched quantity only: the call succeeds, the
\* rest of the sell is dropped and never matched against a later buy; a
\* list without any buy gives no CompletedTrade and the all-zero summary.
C5_UnmatchedDropped ==
    \A k \in 1..Len(results) :
        /\ results[k].success
        /\ \A sym \in Symbols :
              MatchedUnits(CompletedOf(results[k], sym))
                 = UnitMatches(InLedgerOrder(TradesOfSymbol(original, sym)), << >>)
        /\ \A j \in 1..Len(results[k].trades) :
              /\ results[k].trades[j].buy_timestamp
                    <= results[k].trades[j].sell_timestamp
              /\ results[k].trades[j].amount > 0
        /\ (\A j \in 1..Len(original) : original[j].side = "sell") =>
              /\ results[k].trades = << >>
              /\ results[k].summary = EmptySummary

\* C5 witness: a sell before any buy, then a buy, then an oversized sell.
C5_Witness ==
    /\ Len(results) >= 1
    /\ Len(original) = 3
    /\ \A j \in 1..3 : original[j].symbol = "BTC"
    /\ original[1].side = "sell" /\ original[1].timestamp = 0
    /\ original[2].side = "buy" /\ original[2].timestamp = 1
    /\ original[2].amount = 1
    /\ original[3].side = "sell" /\ original[3].timestamp = 1
    /\ original[3].amount = 2
    /\ Len(results[1].trades) = 1

\* C6: the summary never divides by zero: without CompletedTrades the call
\* succeeds with win_rate 0, every numeric field 0 and no best or worst
\* trade; without winning trades average_win is 0, without losing trades
\* average_loss is 0.
C6_NoDivisionByZero ==
    \A k \in 1..Len(results) :
        LET r == results[k]
        IN /\ r.success
           /\ r.trades = << >> =>
                 /\ r.summary.win_rate = 0
                 /\ r.summary.total_pnl = 0 /\ r.summary.total_trades = 0
                 /\ r.summary.winning_trades = 0 /\ r.summary.losing_trades = 0
                 /\ r.summary.average_win = 0 /\ r.summary.average_loss = 0
                 /\ r.summary.best_trade = << >> /\ r.summary.worst_trade = << >>
           /\ (\A j \in 1..Len(r.trades) : ~r.trades[j].is_winning) =>
                 r.summary.average_win = 0
           /\ (\A j \in 1..Len(r.trades) : r.trades[j].is_winning) =>
                 r.summary.average_loss = 0

\* C6 witness: a non-empty list in which nothing matches, and all zero.
C6_Witness ==
    /\ Len(results) >= 1
    /\ Len(original) = 3
    /\ results[1].trades = << >>
    /\ results[1].summary.win_rate = 0

\* A RawTrade that has a symbol, a positive price and a positive amount.
WellFormed(t) == t.symbol # Missing /\ t.price > 0 /\ t.amount > 0

\* C7: a trade without symbol, or with a non-positive price or amount, is
\* skipped: the call succeeds and returns the CompletedTrades of the
\* remaining well-formed trades of the batch.
C7_MalformedSkipped ==
    \A k \in 1..Len(results) :
        /\ results[k].success
        /\ results[k].trades
              = CalculatePnlFromTrades(SelectSeq(original, WellFormed)).trades

\* ------------------------------------------------------------------------
\* Signal loop properties
\* ------------------------------------------------------------------------
\* Row k of the frame is bar k - 1 of the source.
BuyAt(k) == df[k].buy_signal = 1

SellAt(k) == df[k].sell_signal = 1

SignalAt(k) == BuyAt(k) \/ SellAt(k)

\* The position carried into the bar of row k: 0 before the first bar.
CarriedInto(k) == IF k = 1 THEN 0 ELSE df[k - 1].position

\* The loop's local current_position is what the last bar's column holds,
\* so the position the next iteration starts from is the column's value.
LocalIsLastPosition == loc.current_position = df[Len(df)].position

\* The last signal bar before row k, if any.
PreviousSignal(k) ==
    {j \in 1..(k - 1) : SignalAt(j) /\ \A m \in (j + 1)..(k - 1) : ~SignalAt(m)}

\* A buy only from flat and to long, a sell only from long and to flat,
\* never both on one bar.
SignalsFollowPosition(k) ==
    /\ BuyAt(k) => CarriedInto(k) = 0 /\ df[k].position = 1
    /\ SellAt(k) => CarriedInto(k) = 1 /\ df[k].position = 0
    /\ ~(BuyAt(k) /\ SellAt(k))

\* BUY and SELL bars alternate and the first signal is a BUY.
Alternates(k) ==
    /\ BuyAt(k) => \A j \in PreviousSignal(k) : SellAt(j) /\ ~BuyAt(j)
    /\ SellAt(k) => /\ PreviousSignal(k) # {}
                    /\ \A j \in PreviousSignal(k) : BuyAt(j) /\ ~SellAt(j)

\* C8: in the loops of the moving-average, Bollinger and volume-spike
\* strategies, for every candle series, a buy_signal is set at a bar only if
\* the position carried into the bar is 0 and then the bar's position is 1; a
\* sell_signal only if the carried position is 1 and then the bar's position
\* is 0; no bar has both; BUY and SELL bars alternate starting with a BUY;
\* and position is always 0 or 1.
C8_LongFlatLoops ==
    strategy \in {"ma", "bb", "vs"} =>
        /\ LocalIsLastPosition
        /\ \A k \in 1..Len(df) :
             /\ SignalsFollowPosition(k)
             /\ Alternates(k)
             /\ df[k].position \in {0, 1}

\* A volume-spike run that bought, sold and bought again.
C8_Witness ==
    /\ strategy = "vs"
    /\ \E a, b, c \in 1..Len(df) :
         a < b /\ b < c /\ BuyAt(a) /\ SellAt(b) /\ BuyAt(c)

\* C9: in the loops of TrendlineBreakoutStrategy (state in the position
\* column) and RSIStrategy (state in a local variable), a BUY fires at a bar
\* only when the state entering it is flat and sets the bar's position to 1; a
\* SELL fires only when the state entering it is long and sets the bar's
\* position to 0; on a bar without a signal the position equals the previous
\* bar's; and no bar carries both a BUY and a SELL.
C9_TrendlineLoops ==
    strategy \in {"tl", "rsi"} =>
        /\ strategy = "rsi" => LocalIsLastPosition
        /\ \A k \in 1..Len(df) :
             /\ SignalsFollowPosition(k)
             /\ ~SignalAt(k) => df[k].position = CarriedInto(k)

\* A trendline run that bought, held a bar without a signal and then sold.
C9_Witness ==
    /\ strategy = "tl"
    /\ \E a, b, c \in 1..Len(df) :
         /\ a < b /\ b < c
         /\ BuyAt(a)
         /\ ~SignalAt(b) /\ df[b].position = 1
         /\ SellAt(c)

\* C10: after a ReversalPatternsStrategy run over any set of detected
\* patterns, the signal columns never show two BUY bars without a SELL bar
\* between them, never show a sell_signal on a bar before which the position
\* is flat, and never carry a BUY and a SELL on the same bar.
C10_ReversalLongFlat ==
    (strategy = "rev" /\ phase = "done") =>
        \A k \in 1..Len(df) :
            /\ BuyAt(k) =>
                 \A j \in 1..(k - 1) :
                     BuyAt(j) => \E m \in j..k : SellAt(m) /\ j < m /\ m < k
            /\ SellAt(k) => CarriedInto(k) # 0
            /\ ~(BuyAt(k) /\ SellAt(k))

\* fast_ma <= slow_ma at bar i - 1 and fast_ma > slow_ma at bar i, on the
\* frame's closes (row k is bar k - 1).
UpCrossAt(k) ==
    /\ MaSpread(CloseColumn(df), k - 2) <= 0
    /\ MaSpread(CloseColumn(df), k - 1) > 0

DownCrossAt(k) ==
    /\ MaSpread(CloseColumn(df), k - 2) >= 0
    /\ MaSpread(CloseColumn(df), k - 1) < 0

\* Row k lies from a BUY bar up to the bar before the next SELL bar.
InsideTrade(k) ==
    \E b \in 1..k : BuyAt(b) /\ \A m \in (b + 1)..k : ~SellAt(m)

\* C11: in the moving-average loop, at every bar where both averages are
\* defined at that bar and the one before, buy_signal is 1 exactly when the
\* fast average was at or below the slow one and is now above it and the
\* position entering the bar is flat; sell_signal is 1 exactly when it was at
\* or above and is now below and the position entering the bar is long; on
\* every other bar no signal is set; and position is 1 exactly on the bars
\* from a BUY bar up to the bar before the next SELL bar.
C11_CrossoverSignals ==
    strategy = "ma" =>
        \A k \in 1..Len(df) :
            /\ IF MaDefined(k - 1) /\ MaDefined(k - 2)
               THEN /\ BuyAt(k) <=> (UpCrossAt(k) /\ CarriedInto(k) = 0)
                    /\ SellAt(k) <=> (DownCrossAt(k) /\ CarriedInto(k) = 1)
               ELSE ~SignalAt(k)
            /\ df[k].position = (IF InsideTrade(k) THEN 1 ELSE 0)

\* One up-cross bought, a later down-cross sold, and the position was 1 on
\* the bars from the BUY to the bar before the SELL and 0 elsewhere.
C11_Witness ==
    /\ strategy = "ma"
    /\ \E b, s \in 1..Len(df) :
         /\ b + 1 < s /\ s < Len(df)
         /\ \A k \in 1..Len(df) :
              /\ BuyAt(k) <=> k = b
              /\ SellAt(k) <=> k = s
              /\ df[k].position = 1 <=> (b <= k /\ k < s)

\* The rsi column of row k is a number below the level.
RsiBelow(k, level) ==
    df[k].rsi # << >> /\ df[k].rsi[1] < level * df[k].rsi[2]

\* The rsi column of row k is a number at or above the level.
RsiAtOrAbove(k, level) ==
    df[k].rsi # << >> /\ df[k].rsi[1] >= level * df[k].rsi[2]

\* RSI crosses up through the oversold level at row k.
RsiCrossesUp(k) ==
    k > 1 /\ RsiBelow(k - 1, OversoldLevel) /\ RsiAtOrAbove(k, OversoldLevel)

\* C12: in RSIStrategy.generate_signals a BUY fires at a bar only when RSI
\* crosses up through oversold_level at that bar while the position is flat;
\* so on a series whose RSI never drops below oversold_level no BUY fires and
\* the current signal is HOLD CASH.
C12_BuyOnlyOnRsiCross ==
    strategy = "rsi" =>
        /\ \A k \in 1..Len(df) :
             BuyAt(k) => RsiCrossesUp(k) /\ CarriedInto(k) = 0
        /\ (\A k \in 1..Len(df) : ~RsiBelow(k, OversoldLevel)) =>
              /\ \A k \in 1..Len(df) : ~BuyAt(k)
              /\ phase = "done" => current_signal = "HOLD CASH"

\* C13: calculate_rsi returns, at every index >= period, a defined value
\* between 0 and 100; whenever the window's average loss is 0 the value is
\* 100, never NaN.
C13_RsiDefinedAndBounded ==
    strategy = "rsi" =>
        \A k \in (RsiPeriod + 1)..Len(df) :
            /\ df[k].rsi # << >>
            /\ 0 <= df[k].rsi[1]
            /\ df[k].rsi[1] <= 100 * df[k].rsi[2]
            /\ LossSum(CloseColumn(df), k - 1, RsiPeriod) = 0
                 => df[k].rsi[1] = 100 * df[k].rsi[2]

\* The frame is shorter than the strategy's indicator warm-up: fewer than
\* slow_period bars for the moving averages, no more than trendline_lookback
\* bars for the trendlines.
TooShort ==
    \/ strategy = "ma" /\ Len(df) < SlowPeriod
    \/ strategy = "tl" /\ Len(df) <= Lookback

\* A result a caller cannot tell apart from a normal run: a success dict or a
\* frame, carrying the signal columns.
OrdinarySuccess(result) ==
    /\ \/ result.returned = "frame"
       \/ result.returned = "dict" /\ result.success
    /\ \A k \in 1..Len(result.analysis_data) :
         {"buy_signal", "sell_signal", "position"}
             \subseteq DOMAIN result.analysis_data[k]

\* C15: when a run receives fewer candles than its warm-up needs,
\* generate_signals returns an insufficient-data result a caller can tell
\* apart from a normal successful run, not an ordinary success result with
\* signal columns and a HOLD current signal.
C15_InsufficientDataResult ==
    (strategy \in {"ma", "tl"} /\ phase = "done" /\ TooShort) =>
        ~OrdinarySuccess(GenerateSignalsResult(strategy, df))

\* The bars with a sell signal, and those with a buy signal.
SellBars == {k \in 1..Len(df) : SellAt(k)}

BuyBars == {k \in 1..Len(df) : BuyAt(k)}

\* The j-th sell bar of the frame.
NthSellBar(j) ==
    CHOOSE k \in SellBars : Cardinality({s \in SellBars : s <= k}) = j

\* The most recent BUY bar before bar k, 0 when there is none.
LastBuyBefore(k) ==
    IF \E b \in BuyBars : b < k
    THEN CHOOSE b \in BuyBars : b < k /\ \A c \in BuyBars : c < k => c <= b
    ELSE 0

\* C16: on every frame of the trendline strategy the walk of
\* _calculate_ai_trades tracks the engine: after each row ai_position equals
\* the row's position, there is exactly one trade per sell_signal bar, each
\* pairing that SELL with the most recent earlier BUY bar with
\* pnl = close at the SELL - close at the BUY, and a final BUY with no later
\* SELL yields no trade.
C16_WalkTracksEngine ==
    strategy = "compare" =>
        LET walked == CalculateAiTrades(df)
        IN  /\ \A k \in 1..Len(df) : AiWalk(df, k).ai_position = df[k].position
            /\ Len(walked) = Cardinality(SellBars)
            /\ \A j \in 1..Len(walked) :
                 /\ walked[j].exit_time = NthSellBar(j)
                 /\ walked[j].entry_time = LastBuyBefore(NthSellBar(j))
                 /\ walked[j].entry_time \in BuyBars
                 /\ walked[j].pnl = df[walked[j].exit_time].close
                                      - df[walked[j].entry_time].close
            /\ \A b \in BuyBars :
                 (\A s \in SellBars : s < b) =>
                     \A j \in 1..Len(walked) : walked[j].entry_time # b
            /\ phase = "done" => ai_trades = walked

\* The walk returned one winning trade and the frame ends in a BUY that no
\* SELL follows.
C16_Witness ==
    /\ strategy = "compare"
    /\ phase = "done"
    /\ Len(ai_trades) = 1
    /\ ai_trades[1].pnl > 0
    /\ \E b \in BuyBars : b > ai_trades[1].exit_time

\* C20: in the RSI strategy's loop and in the trendline strategy's loop no
\* BUY fires at a bar fewer than min_candles_between_signals bars after the
\* previous signal bar, whether that signal was a BUY or a SELL.
C20_MinimumSpacing ==
    strategy \in {"rsi", "tl"} =>
        \A k \in 1..Len(df) :
            BuyAt(k) =>
                \A j \in 1..(k - 1) :
                    SignalAt(j) => k - j >= MinCandlesBetweenSignals

\* ------------------------------------------------------------------------
\* Strategy service properties
\* ------------------------------------------------------------------------
\* The frame has one of the two layouts get_current_signal reads.
AcceptedLayout ==
    \/ HasColumn(df, "buy_signal") /\ HasColumn(df, "sell_signal")
    \/ HasColumn(df, "signal")

\* The last row's value in a column, 0 when the frame has no such column.
LastOrZero(column) ==
    IF HasColumn(df, column) THEN ILocLast(df, column) ELSE 0

\* The last row carries a buy signal in its layout's encoding.
LastRowBuys ==
    IF HasColumn(df, "buy_signal") /\ HasColumn(df, "sell_signal")
    THEN LastOrZero("buy_signal") = 1
    ELSE LastOrZero("signal") = 1

\* The last row carries a sell signal in its layout's encoding.
LastRowSells ==
    IF HasColumn(df, "buy_signal") /\ HasColumn(df, "sell_signal")
    THEN LastOrZero("sell_signal") = 1
    ELSE LastOrZero("signal") = -1

\* The five-way derivation from the last row alone.
SignalOfLastRow ==
    IF LastRowBuys THEN "BUY"
    ELSE IF LastRowSells THEN "SELL"
    ELSE IF LastOrZero("position") = 1 THEN "HOLD LONG"
    ELSE IF LastOrZero("position") = -1 THEN "HOLD SHORT"
    ELSE "HOLD CASH"

\* C14: get_current_signal depends only on the last row of the frame and,
\* for both layouts it accepts, returns BUY if the last row carries a buy
\* signal, otherwise SELL if it carries a sell signal, otherwise HOLD LONG if
\* position is 1, otherwise HOLD SHORT if position is -1, otherwise HOLD CASH.
C14_SignalFromLastRow ==
    (strategy = "service" /\ phase = "done" /\ AcceptedLayout) =>
        current_signal = SignalOfLastRow

\* The AI win rate minus the actual win rate is more than gap percentage
\* points, in exact arithmetic: 100 * aw / an - 100 * w / n > gap.
AheadBy(aw, an, w, n, gap) ==
    100 * (aw * Max(n, 1) - w * Max(an, 1)) > gap * Max(an, 1) * Max(n, 1)

AiAhead ==
    AheadBy(comparison.ai_predictions.winning_trades,
            comparison.ai_predictions.total_trades,
            comparison.actual_trading.winning_trades,
            comparison.actual_trading.total_trades, 5)

ActualAhead ==
    AheadBy(comparison.actual_trading.winning_trades,
            comparison.actual_trading.total_trades,
            comparison.ai_predictions.winning_trades,
            comparison.ai_predictions.total_trades, 5)

\* C17: the verdict is 'AI performs better' exactly when the AI win rate
\* exceeds the actual win rate by more than 5 percentage points, 'Your
\* trading performs better' exactly when the actual win rate exceeds the AI
\* win rate by more than 5 points, and 'Similar' otherwise; a side with zero
\* trades has win rate 0.
C17_VerdictThresholds ==
    comparison.performance_comparison # "none" =>
        /\ comparison.performance_comparison =
               (IF AiAhead THEN "AI performs better"
                ELSE IF ActualAhead THEN "Your trading performs better"
                ELSE "Similar")
        /\ actual_trades = << >> =>
               comparison.actual_trading.win_rate = FloatOfInt(0)
        /\ ai_trades = << >> =>
               comparison.ai_predictions.win_rate = FloatOfInt(0)

\* ------------------------------------------------------------------------
\* Ledger properties: trades with equal timestamps
\* ------------------------------------------------------------------------
\* The positions of a symbol's trades keep their input order wherever two
\* of them have the same timestamp.
TiesInInputOrder(list, order) ==
    \A i, j \in 1..Len(order) :
        (i < j /\ list[order[i]].timestamp = list[order[j]].timestamp)
            => order[i] < order[j]

\* Every sell of the symbol comes before every buy of the symbol in the
\* input, and all of them have the same timestamp.
SellsFirstAtOneTime(list, sym) ==
    \A i, j \in 1..Len(list) :
        (list[i].symbol = sym /\ list[j].symbol = sym) =>
            /\ list[i].timestamp = list[j].timestamp
            /\ (list[i].side = "buy" /\ list[j].side = "sell") => j < i

\* C18: within one symbol _match_trades_fifo processes trades with equal
\* timestamps in their input order; a sell that comes before a buy with the
\* same timestamp is processed before that buy and is not matched against it.
C18_TiesKeepInputOrder ==
    \A sym \in Symbols :
        /\ TiesInInputOrder(original, MergedOrder(original, sym))
        /\ SellsFirstAtOneTime(original, sym) =>
              \A k \in 1..Len(results) : CompletedOf(results[k], sym) = << >>

\* ------------------------------------------------------------------------
\* Legacy ledger properties
\* ------------------------------------------------------------------------
\* The sell precedes every buy of its symbol.
PrecedesEveryBuy(list, k) ==
    \A j \in 1..Len(list) :
        (list[j].symbol = list[k].symbol /\ list[j].side = "buy")
            => list[k].timestamp < list[j].timestamp

\* C19: the legacy ledger matches a sell only against buys that are already
\* open when the sell happens: every CompletedTrade has
\* buy_timestamp <= sell_timestamp, and a symbol whose sells all precede
\* every buy of the symbol has no CompletedTrade.
C19_LegacySellsMatchOpenBuys ==
    \A r \in 1..Len(results) :
        /\ \A j \in 1..Len(results[r].trades) :
              results[r].trades[j].buy_timestamp
                  <= results[r].trades[j].sell_timestamp
        /\ \A sym \in Symbols :
              (\A k \in 1..Len(original) :
                  (original[k].symbol = sym /\ original[k].side = "sell")
                      => PrecedesEveryBuy(original, k))
              => \A j \in 1..Len(results[r].trades) :
                     results[r].trades[j].symbol # sym

\* ------------------------------------------------------------------------
\* Signal loop properties: exits
\* ------------------------------------------------------------------------
\* An exit condition holds on the bar just processed.
ExitCondition ==
    \/ bar.support_cross = -1
    \/ bar.resist_cross = -1
    \/ bar.level_breaks = -1

\* C21: in the RSI strategy's loop and the trendline strategy's loop,
\* whenever the position entering bar i is long and support_cross,
\* resist_cross or level_breaks is -1 at bar i, the SELL fires at that bar:
\* sell_signal[i] is 1 and position[i] is 0.  Every bar is the last bar of
\* the frame when its iteration ends, and bar holds its columns then.
C21_SellAtExitBar ==
    (strategy \in {"tl", "rsi"} /\ Len(df) > 1
        /\ CarriedInto(Len(df)) = 1 /\ ExitCondition)
    => (SellAt(Len(df)) /\ df[Len(df)].position = 0)

\* ------------------------------------------------------------------------
\* Continuation strategy properties
\* ------------------------------------------------------------------------
\* The bar at which the position open on bar k was opened.
EntryBar(k) ==
    CHOOSE e \in 1..k :
        /\ \A j \in e..k : df[j].position = df[k].position
        /\ e > 1 => df[e - 1].position # df[k].position

\* Bar k breaches a level set at the entry bar e, for a position of that sign.
Breached(k, e, sign) ==
    IF sign = 1
    THEN df[k].low <= df[e].stop_loss \/ df[k].high >= df[e].take_profit
    ELSE df[k].high >= df[e].stop_loss \/ df[k].low <= df[e].take_profit

\* C22: in the continuation strategy's position pass a long position opened
\* at bar e stays open until the first bar whose low is at or below the
\* stop_loss set at e or whose high is at or above the take_profit set at e,
\* or an opposite signal arrives, and symmetrically for a short position; it
\* is not closed on a bar where neither level of the entry is breached.
C22_OpenUntilEntryLevelBreached ==
    strategy = "cp" =>
        \A k \in 2..Len(df) :
            LET held == df[k - 1].position
            IN  (held # 0 /\ df[k].signal # -held) =>
                    df[k].position =
                        (IF Breached(k, EntryBar(k - 1), held) THEN 0 ELSE held)

\* ------------------------------------------------------------------------
\* Extremes and level break properties
\* ------------------------------------------------------------------------
\* The extremes found, tops and bottoms together.
AllExtremes == Range(patterns.tops) \cup Range(patterns.bottoms)

\* C23: level_signals[i] is -1 only when the close crosses below the level
\* of a top or bottom that rw_extremes has confirmed at a detection index
\* <= i; an extreme that occurs or is confirmed after bar i never triggers a
\* level break at bar i.
C23_BreaksOnlyOfConfirmedLevels ==
    (strategy = "extremes" /\ phase = "done") =>
        \A i \in 1..(Len(df) - 1) :
            At(df, i).level_breaks = -1 =>
                \E x \in AllExtremes :
                    /\ x[1] <= i
                    /\ CrossesBelow(CloseColumn(df), i, x[3])

\* The window [k - order, k + order] lies inside the series.
FullWindow(k) == k - RwOrder >= 0 /\ k + RwOrder < Len(df)

\* data[k] is the strict maximum (sign 1) or minimum (sign -1) of its window.
StrictExtreme(k, sign) ==
    \A j \in (k - RwOrder)..(k + RwOrder) :
        j # k => sign * At(df, k).close > sign * At(df, j).close

\* The extremes a strict symmetric window reports.
StrictExtremes(sign) ==
    {<< k + RwOrder, k, At(df, k).close >> :
        k \in {n \in 0..(Len(df) - 1) : FullWindow(n) /\ StrictExtreme(n, sign)}}

\* C24: rw_extremes reports a top [k + order, k, series[k]] exactly for the
\* indices k whose value is the strict maximum over the full window
\* [k - order, k + order], and a bottom exactly for the strict minima.
C24_StrictSymmetricExtremes ==
    (strategy = "extremes" /\ phase # "extremes") =>
        /\ Range(patterns.tops) = StrictExtremes(1)
        /\ Range(patterns.bottoms) = StrictExtremes(-1)

\* ------------------------------------------------------------------------
\* Reversal strategy properties: the breakout search
\* ------------------------------------------------------------------------
\* The bar's volume exceeds volume_ma x volume_threshold, volume_ma defined.
VolumeExceeds(rows, i) ==
    /\ RollingDefined(i, VolumeMaPeriod)
    /\ 100 * At(rows, i).volume * VolumeMaPeriod
         > VolumeThresholdPct * WindowSum(VolumeColumn(rows), i, VolumeMaPeriod)

\* The qualifying bars among the BreakoutSearchBars bars following the
\* pattern's end.
QualifyingBars(rows, pattern) ==
    {i \in (pattern.end_idx + 1) ..
             Min(pattern.end_idx + BreakoutSearchBars, Len(rows) - 1) :
        /\ VolumeExceeds(rows, i)
        /\ \/ pattern.direction = "bearish"
              /\ At(rows, i).close < pattern.neckline_price
           \/ pattern.direction = "bullish"
              /\ At(rows, i).close > pattern.neckline_price}

FirstQualifying(rows, pattern) ==
    CHOOSE i \in QualifyingBars(rows, pattern) :
        \A j \in QualifyingBars(rows, pattern) : i <= j

SignalAtFirstQualifying(rows, pattern) ==
    IF QualifyingBars(rows, pattern) = {} THEN rows
    ELSE IF pattern.direction = "bearish"
    THEN [rows EXCEPT ![FirstQualifying(rows, pattern) + 1].sell_signal = 1]
    ELSE [rows EXCEPT ![FirstQualifying(rows, pattern) + 1].buy_signal = 1]

\* C25: the search for one pattern sets exactly one signal, at the first
\* bar among the 20 bars following the pattern's end whose close is beyond
\* the neckline in the pattern's direction and whose volume exceeds
\* volume_ma x volume_threshold, and sets none when no such bar exists.
C25_SignalAtFirstBreakoutIn20Bars ==
    [][(strategy = "rev" /\ phase = "patterns" /\ pattern_idx' = pattern_idx + 1)
         => /\ df' = SignalAtFirstQualifying(df, patterns[pattern_idx + 1])
            /\ (pattern_idx \in pattern_signals')
                 <=> (QualifyingBars(df, patterns[pattern_idx + 1]) # {})]_vars

\* ------------------------------------------------------------------------
\* Signal loop properties: bars without an indicator
\* ------------------------------------------------------------------------
\* The governing indicator of strategy s is undefined at bar i: a moving
\* average of bar i or i - 1, the Bollinger bands of bar i, the volume
\* average of bar i.
IndicatorUndefined(s, i) ==
    CASE s = "ma" -> i - 1 < Max(FastPeriod, SlowPeriod) - 1
      [] s = "bb" -> i < BBPeriod - 1
      [] s = "vs" -> i < VolumePeriod - 1
      [] OTHER -> FALSE

\* C26: in the moving-average, Bollinger and volume-spike loops a bar whose
\* governing indicator is undefined carries neither a buy nor a sell signal
\* and its position is the position of the previous bar.
C26_NoSignalWithoutIndicator ==
    strategy \in {"ma", "bb", "vs"} =>
        \A i \in 0..(Len(df) - 1) :
            IndicatorUndefined(strategy, i) =>
                /\ At(df, i).buy_signal = 0
                /\ At(df, i).sell_signal = 0
                /\ i > 0 => At(df, i).position = At(df, i - 1).position

\* The moving-average loop has gone through its undefined bars and has
\* bought on a later one.
C26_Witness ==
    /\ strategy = "ma"
    /\ Len(df) > Max(FastPeriod, SlowPeriod)
    /\ IndicatorUndefined("ma", 1)
    /\ \E i \in 1..(Len(df) - 1) : At(df, i).buy_signal = 1

\* ------------------------------------------------------------------------
\* Volume-spike properties: the holding period
\* ------------------------------------------------------------------------
\* A cause of exit at bar j for the position entered at bar e.
ExitCause(e, j) ==
    \/ BearishSpike(df, j)
    \/ 100 * At(df, j).close >= TakeProfitPct * At(df, e).close
    \/ 100 * At(df, j).close <= StopLossPct * At(df, e).close
    \/ j - e >= MaxHoldPeriods

\* The first bar after e with a cause of exit; Len(df) if there is none yet.
FirstExit(e) ==
    IF \E j \in (e + 1)..(Len(df) - 1) : ExitCause(e, j)
    THEN CHOOSE j \in (e + 1)..(Len(df) - 1) :
             /\ ExitCause(e, j)
             /\ \A k \in (e + 1)..(j - 1) : ~ExitCause(e, k)
    ELSE Len(df)

\* C27: after a BUY at bar e the SELL is at the first later bar with a
\* bearish spike, a close at or above 1.05 x the entry price, a close at or
\* below 0.97 x the entry price or 24 bars since the entry; with 24 bars
\* after e the SELL is within (e, e + 24], and position is 0 from the SELL
\* until the next BUY.
C27_PositionBoundedInTime ==
    strategy = "vs" =>
        \A e \in 0..(Len(df) - 1) :
            At(df, e).buy_signal = 1 =>
                /\ \A j \in (e + 1)..Min(FirstExit(e), Len(df) - 1) :
                       /\ At(df, j).sell_signal = (IF j = FirstExit(e) THEN 1 ELSE 0)
                       /\ At(df, j).position = (IF j = FirstExit(e) THEN 0 ELSE 1)
                /\ Len(df) - 1 >= e + MaxHoldPeriods =>
                       \E j \in (e + 1)..(e + MaxHoldPeriods) : At(df, j).sell_signal = 1
                /\ \A j \in (FirstExit(e) + 1)..(Len(df) - 1) :
                       (\A k \in (FirstExit(e) + 1)..j : At(df, k).buy_signal = 0)
                           => At(df, j).position = 0

\* A position is closed by the holding limit alone, 24 bars after its entry.
C27_Witness ==
    /\ strategy = "vs"
    /\ \E e \in 0..(Len(df) - 1) :
         /\ At(df, e).buy_signal = 1
         /\ FirstExit(e) = e + MaxHoldPeriods
         /\ FirstExit(e) < Len(df) - 1
         /\ At(df, FirstExit(e)).sell_signal = 1
         /\ ~BearishSpike(df, FirstExit(e))
         /\ 100 * At(df, FirstExit(e)).close < TakeProfitPct * At(df, e).close
         /\ 100 * At(df, FirstExit(e)).close > StopLossPct * At(df, e).close

\* ------------------------------------------------------------------------
\* Signal loop properties: the returned current_signal
\* ------------------------------------------------------------------------
\* The signal the last row of the frame stands for.
LastRowSignal(rows) ==
    LET last == rows[Len(rows)]
    IN  IF last.buy_signal = 1 THEN "BUY"
        ELSE IF last.sell_signal = 1 THEN "SELL"
        ELSE IF last.position = 1 THEN "HOLD LONG"
        ELSE "HOLD CASH"

\* C28: the current_signal returned by the moving-average, Bollinger and
\* volume-spike strategies is the signal of the last row: BUY exactly when
\* its buy_signal is 1, SELL exactly when its sell_signal is 1, HOLD LONG
\* when neither is set and position is 1, HOLD CASH when neither is set and
\* position is 0.
C28_CurrentSignalOfLastRow ==
    (strategy \in {"ma", "bb", "vs"} /\ phase = "done") =>
        current_signal = LastRowSignal(df)

\* ------------------------------------------------------------------------
\* Ledger properties: the simulated trade file
\* ------------------------------------------------------------------------
RECURSIVE SumAmounts(_)
SumAmounts(ts) == IF ts = << >> THEN 0 ELSE ts[1].amount + SumAmounts(Tail(ts))

\* The completed trades of the sell of candle `timestamp` (one trade at most
\* is generated per candle).
CompletedOfSell(completed, timestamp) ==
    SelectSeq(completed, LAMBDA t : t.sell_timestamp = timestamp)

\* The generator never sells more than it holds at that point.
NeverOversold(list) ==
    \A k \in 1..Len(list) :
        Cardinality({j \in 1..k : list[j].side = "sell"})
            <= Cardinality({j \in 1..k : list[j].side = "buy"})

\* C29: every trade list generate_simulated_trades produces is fully
\* matched by TradingService.calculate_pnl_from_trades: the completed trades
\* of each generated sell have amounts summing to the sell's quantity.
C29_SimulatedSellsFullyMatched ==
    (strategy = "simulate" /\ phase = "done" /\ NeverOversold(original)) =>
        \A k \in 1..Len(original) :
            original[k].side = "sell" =>
                SumAmounts(CompletedOfSell(results[1].trades,
                                           original[k].timestamp))
                    = original[k].quantity

\* ------------------------------------------------------------------------
\* Token revocation properties
\* ------------------------------------------------------------------------
\* Request k was a successful logout.
LoggedOut(k) ==
    /\ requests[k].endpoint \in {"app.logout", "auth.logout"}
    /\ requests[k].status = 200

\* C30: after a successful logout with a token, through either logout
\* handler, the token's jti is in the set check_if_token_revoked consults,
\* and every later request presenting the token is rejected.
C30_LogoutRevokesToken ==
    \A k \in 1..Len(requests) :
        LoggedOut(k) =>
            /\ requests[k].jti \in blacklisted_tokens
            /\ \A j \in (k + 1)..Len(requests) :
                   requests[j].jti = requests[k].jti => requests[j].status = 401

====
